---- MODULE Spec2Model ----
(***************************************************************************)
(* Model of backend/center_object_classifier.py: the frame loop of         *)
(* CenterObjectClassifier.run, the capture and classification cooldowns,   *)
(* update_cart with its duplicate filter, the background deal analysis     *)
(* tasks, the debounced flush task and its writer threads, and the         *)
(* shutdown sequence of run's finally block.                               *)
(*                                                                         *)
(* Strings are sequences of words (the string split on single spaces).     *)
(* Time is counted in ticks of half a second.  Confidences are percents.   *)
(* One action is one run of a task of the asyncio loop from the point it   *)
(* is resumed to its next suspension; writer threads (asyncio.to_thread)   *)
(* run beside the loop.  flush_log and frame_log are history variables:    *)
(* one record per call of schedule_cart_flush and per frame read.          *)
(***************************************************************************)
EXTENDS Integers, Sequences, FiniteSets, TLC

\* ------------------------------------------------------------------------
\* Bounds of the model
\* ------------------------------------------------------------------------
\* StartTime is the clock (time.time()) when run() starts, MaxTicks the
\* length of a run in ticks, MaxFrames the number of frames cap.read() yields.
StartTime == 20
MaxTicks == 11
MaxFrames == 2
\* TimeStep is the step of the clock in the runs of Spec (two and a half
\* seconds); the runs of SpecTimed step by one tick.
TimeStep == 5

\* the longest cart the reconciliation pass is started on, where the cart is drawn
MaxCart == 3

\* the longest best deal message, in characters, where the message is drawn
MaxMessage == 6

\* ------------------------------------------------------------------------
\* Configuration constants (in ticks / percents)
\* ------------------------------------------------------------------------
CAPTURE_COOLDOWN == 4
RESULTS_FLUSH_DELAY == 4
CLASSIFICATION_COOLDOWN == 10
MIN_CONFIDENCE_THRESHOLD == 88
HISTOGRAM_COMPARISON_THRESHOLD == 70       \* 0.7, in percent

\* Python's None, and the empty string: an optional value is a sequence of
\* at most one element (an image path is the pair <<second, label>>).
None == <<>>

BAG_DETECTION_KEYWORDS ==
    { <<"bag">>, <<"shopping", "bag">>, <<"tote">>, <<"container">>,
      <<"basket">>, <<"cart">> }

GROCERY_CATEGORIES ==
    { <<"food">>, <<"beverage">>, <<"snack">>, <<"snack", "food">>, <<"dairy">>,
      <<"produce">>, <<"meat">>, <<"bakery">>, <<"frozen">>, <<"pantry">>,
      <<"condiment">>, <<"spice">>, <<"cereal">>, <<"candy">>, <<"chocolate">>,
      <<"drink">>, <<"juice">>, <<"soda">>, <<"water">>, <<"coffee">>, <<"tea">>,
      <<"alcohol">>, <<"wine">>, <<"beer">> }

NON_GROCERY_CATEGORIES ==
    { <<"sports", "equipment">>, <<"hardware">>, <<"electronics">>,
      <<"clothing">>, <<"accessory">>, <<"exercise", "equipment">>,
      <<"furniture">>, <<"toy">>, <<"book">>, <<"tool">>, <<"appliance">>,
      <<"beauty">>, <<"health">>, <<"cleaning">>, <<"automotive">>, <<"garden">>,
      <<"office">>, <<"pet">>, <<"baby">>, <<"home">>, <<"kitchen">>,
      <<"bathroom">>, <<"bedroom">>, <<"living", "room">> }

grocery_keywords ==
    { <<"can">>, <<"bottle">>, <<"box">>, <<"bag">>, <<"jar">>, <<"carton">>,
      <<"pack">>, <<"container">>, <<"drink">>, <<"food">>, <<"snack">>,
      <<"cereal">>, <<"milk">>, <<"juice">>, <<"soda">>, <<"beer">>, <<"wine">>,
      <<"coffee">>, <<"tea">>, <<"bread">>, <<"meat">>, <<"cheese">>,
      <<"yogurt">>, <<"candy">>, <<"chocolate">>, <<"cookie">>, <<"cracker">>,
      <<"chip">>, <<"nut">>, <<"fruit">>, <<"vegetable">>, <<"sauce">>,
      <<"spice">>, <<"oil">>, <<"vinegar">>, <<"sugar">>, <<"salt">>,
      <<"flour">>, <<"rice">>, <<"pasta">>, <<"soup">>, <<"frozen">>,
      <<"ice", "cream">> }

\* ------------------------------------------------------------------------
\* Strings
\* ------------------------------------------------------------------------

\* str.lower() of one word of the vocabulary
LowerWord(w) ==
    CASE w = "Coca-Cola" -> "coca-cola"
      [] w = "Can"       -> "can"
      [] w = "Coke"      -> "coke"
      [] w = "Pringles"  -> "pringles"
      [] w = "Original"  -> "original"
      [] w = "Shopping"  -> "shopping"
      [] w = "Bag"       -> "bag"
      [] w = "Hammer"    -> "hammer"
      [] w = "Stanley"   -> "stanley"
      [] w = "Snack"     -> "snack"
      [] w = "Pack"      -> "pack"
      [] w = "Milk"      -> "milk"
      [] w = "Carton"    -> "carton"
      [] w = "Unknown"   -> "unknown"
      [] w = "N/A"       -> "n/a"
      [] w = "Error"     -> "error"
      [] w = "Bottle"    -> "bottle"
      [] w = "Chips"     -> "chips"
      [] OTHER           -> w

\* str.title() of one word of the vocabulary
TitleWord(w) ==
    CASE LowerWord(w) = "coca-cola" -> "Coca-Cola"
      [] LowerWord(w) = "coke"      -> "Coke"
      [] LowerWord(w) = "pringles"  -> "Pringles"
      [] LowerWord(w) = "stanley"   -> "Stanley"
      [] LowerWord(w) = "snack"     -> "Snack"
      [] LowerWord(w) = "unknown"   -> "Unknown"
      [] LowerWord(w) = "n/a"       -> "N/A"
      [] OTHER                      -> w

Lower(s) == [i \in 1..Len(s) |-> LowerWord(s[i])]

Title(s) == [i \in 1..Len(s) |-> TitleWord(s[i])]

\* k is a substring of the single word w (both lower case): the proper
\* substrings that occur between the key words of the program and the
\* words of the vocabulary, and equality.
WordContains(w, k) ==
    \/ w = k
    \/ <<w, k>> \in { <<"carton", "cart">>, <<"coca-cola", "coca">>,
                      <<"coca-cola", "cola">>, <<"pringles", "pringle">>,
                      <<"chips", "chip">> }

\* Python's `k in s` for strings: a one-word key may lie inside any word;
\* a key of several words lies on consecutive words (no word of the
\* vocabulary properly ends or starts with a word of such a key).
Contains(s, k) ==
    IF Len(k) = 0 THEN TRUE
    ELSE IF Len(k) = 1 THEN \E i \in 1..Len(s) : WordContains(s[i], k[1])
    ELSE \E i \in 1..Len(s) :
            /\ i + Len(k) - 1 <= Len(s)
            /\ \A j \in 1..Len(k) : s[i + j - 1] = k[j]

Range(s) == { s[i] : i \in 1..Len(s) }

\* ------------------------------------------------------------------------
\* Names, brands and similarity
\* ------------------------------------------------------------------------

normalize_brand_name(brand) ==
    IF brand = None \/
       Lower(brand) \in { <<"unknown">>, <<"n/a">>, <<"uncertain">> }
    THEN <<"Unknown">>
    ELSE IF \/ Contains(Lower(brand), <<"coca-cola">>)
            \/ Contains(Lower(brand), <<"coca", "cola">>)
            \/ Contains(Lower(brand), <<"coke">>)
            \/ Contains(Lower(brand), <<"diet", "coke">>)
         THEN <<"Coca-Cola">>
    ELSE IF \/ Contains(Lower(brand), <<"pringles">>)
            \/ Contains(Lower(brand), <<"pringle">>)
         THEN <<"Pringles">>
    ELSE IF Contains(Lower(brand), <<"ensure">>) THEN <<"Ensure">>
    ELSE Title(brand)

common_words ==
    { "can", "bottle", "box", "pack", "container", "the", "a", "an", "grab",
      "go", "snack", "potato", "crisps" }

brand_words == { "pringles", "coca-cola", "coke", "diet", "ensure" }

\* A similarity is the fraction <<numerator, denominator>>.
Frac(n, d) == <<n, d>>

FracGT(x, y) == x[1] * y[2] > y[1] * x[2]

FracMin(x, y) == IF FracGT(x, y) THEN y ELSE x

Overlap(a, b) ==
    IF Cardinality(a \cup b) > 0
    THEN Frac(Cardinality(a \cap b), Cardinality(a \cup b))
    ELSE Frac(0, 1)

calculate_name_similarity(name1, name2) ==
    LET words1 == Range(Lower(name1)) \ common_words
        words2 == Range(Lower(name2)) \ common_words
        brand_match == \E b \in brand_words : b \in words1 /\ b \in words2
        core_words1 == words1 \ brand_words
        core_words2 == words2 \ brand_words
        similarity == Overlap(core_words1, core_words2)
    IN  IF name1 = <<>> \/ name2 = <<>> THEN Frac(0, 1)
        ELSE IF words1 = {} \/ words2 = {} THEN Frac(0, 1)
        ELSE IF brand_match
             THEN IF core_words1 = {} \/ core_words2 = {} THEN Frac(9, 10)
                  ELSE FracMin(Frac(95, 100),
                               Frac(10 * similarity[1] + 3 * similarity[2],
                                    10 * similarity[2]))
        ELSE Overlap(words1, words2)

SimilarityThreshold == Frac(8, 10)

\* ------------------------------------------------------------------------
\* Classification records
\* ------------------------------------------------------------------------

Classification(n, b, c, conf) ==
    [object_name |-> n, brand |-> b, category |-> c, confidence |-> conf]

CokeCan == Classification(<<"Coca-Cola", "Can">>, <<"Coca-Cola">>, <<"beverage">>, 95)

Coke12oz == Classification(<<"Coke", "12oz">>, <<"Coke">>, <<"beverage">>, 92)

PringlesLow == Classification(<<"Pringles", "Original">>, <<"Pringles">>, <<"snack">>, 50)

ShoppingBag == Classification(<<"Shopping", "Bag">>, <<"Unknown">>, <<"accessory">>, 90)

SnackPack == Classification(<<"Snack", "Pack">>, <<"N/A">>, <<"snack">>, 90)

\* A classification result: None, or one record (a dict).
NoResult == [kind |-> "none", objs |-> <<>>]

Dict(obj) == [kind |-> "dict", objs |-> <<obj>>]

\* A list of records (multi-object), as json.loads gives it for an array
List(objs) == [kind |-> "list", objs |-> objs]

\* What classify_with_gemini returns in the runs explored: a record, or
\* None when the response text is empty.
ClassifierOutputs ==
    { Dict(CokeCan), Dict(Coke12oz), Dict(PringlesLow), Dict(ShoppingBag),
      Dict(SnackPack), NoResult }

is_bag(obj) ==
    \E k \in BAG_DETECTION_KEYWORDS :
        Contains(Lower(obj.object_name), k) \/ Contains(Lower(obj.category), k)

is_grocery_item(obj) ==
    IF \E g \in NON_GROCERY_CATEGORIES : Contains(Lower(obj.category), g) THEN FALSE
    ELSE IF \E g \in GROCERY_CATEGORIES : Contains(Lower(obj.category), g) THEN TRUE
    ELSE \E k \in grocery_keywords : Contains(Lower(obj.object_name), k)

IsSentinel(obj) ==
    obj.object_name \in { <<"no_hand_holding_object">>, <<"unidentifiable_item">> }

\* item_key = f"{object_name}_{normalized_brand}".lower()
ItemKey(object_name, normalized_brand) ==
    <<Lower(object_name), Lower(normalized_brand)>>

\* ------------------------------------------------------------------------
\* The cart: a Python dict, i.e. a sequence of entries in insertion order
\* ------------------------------------------------------------------------

CartKeys(c) == { c[i].key : i \in 1..Len(c) }

KeyIndex(c, k) == CHOOSE i \in 1..Len(c) : c[i].key = k

Similar(name1, brand1, name2, brand2) ==
    /\ FracGT(calculate_name_similarity(Lower(name1), Lower(name2)), SimilarityThreshold)
    /\ FracGT(calculate_name_similarity(Lower(brand1), Lower(brand2)), SimilarityThreshold)

\* is_duplicate_item with the thresholds of both similarities at 0.95
is_duplicate_item_strict(c, object_name, brand) ==
    \E i \in 1..Len(c) :
        /\ FracGT(calculate_name_similarity(Lower(object_name), Lower(c[i].name)),
                  Frac(95, 100))
        /\ FracGT(calculate_name_similarity(Lower(brand), Lower(c[i].brand)),
                  Frac(95, 100))

\* is_duplicate_item that matches on equal names and brands only
is_duplicate_item_exact(c, object_name, brand) ==
    \E i \in 1..Len(c) :
        Lower(object_name) = Lower(c[i].name) /\ Lower(brand) = Lower(c[i].brand)

is_duplicate_item(c, object_name, brand) ==
    \E i \in 1..Len(c) : Similar(object_name, brand, c[i].name, c[i].brand)

\* the new entry with its count at 0
NewCartItem_uncounted(obj, image_path, current_time) ==
    [ key |-> ItemKey(obj.object_name, normalize_brand_name(obj.brand)),
      name |-> obj.object_name,
      brand |-> normalize_brand_name(obj.brand),
      category |-> obj.category,
      count |-> 0,
      confidence |-> obj.confidence,
      last_seen |-> current_time,
      deal_analysis |-> None,
      price |-> None,
      image_path |-> image_path ]

NewCartItem(obj, image_path, current_time) ==
    [ key |-> ItemKey(obj.object_name, normalize_brand_name(obj.brand)),
      name |-> obj.object_name,
      brand |-> normalize_brand_name(obj.brand),
      category |-> obj.category,
      count |-> 1,
      confidence |-> obj.confidence,
      last_seen |-> current_time,
      deal_analysis |-> None,
      price |-> None,
      image_path |-> image_path ]

\* AddOrUpdate without the increment of count on an existing key
AddOrUpdate_no_increment(c, obj, image_path, current_time) ==
    LET k == ItemKey(obj.object_name, normalize_brand_name(obj.brand))
    IN  IF k \in CartKeys(c)
        THEN [c EXCEPT ![KeyIndex(c, k)] =
                 [@ EXCEPT !.last_seen = current_time,
                           !.image_path = IF image_path # None THEN image_path ELSE @]]
        ELSE Append(c, NewCartItem(obj, image_path, current_time))

\* Lines 326-358 of update_cart: add the item or update the entry of its key.
AddOrUpdate(c, obj, image_path, current_time) ==
    LET k == ItemKey(obj.object_name, normalize_brand_name(obj.brand))
    IN  IF k \in CartKeys(c)
        THEN [c EXCEPT ![KeyIndex(c, k)] =
                 [@ EXCEPT !.count = @ + 1,
                           !.last_seen = current_time,
                           !.image_path = IF image_path # None THEN image_path ELSE @]]
        ELSE Append(c, NewCartItem(obj, image_path, current_time))

\* the maximum that keeps the value of the merged record
Max_first(a, b) == a

Max(a, b) == IF a >= b THEN a ELSE b

\* the search that matches on the brand alone
find_matching_cart_key_brand(existing_cart, candidate) ==
    LET hits == { i \in 1..Len(existing_cart) :
                    FracGT(calculate_name_similarity(Lower(candidate.brand),
                                                     Lower(existing_cart[i].brand)),
                           SimilarityThreshold) }
    IN  IF hits = {} THEN 0 ELSE CHOOSE i \in hits : \A j \in hits : i <= j

\* index in existing_cart of the first entry that matches the candidate, or 0
find_matching_cart_key(existing_cart, candidate) ==
    LET hits == { i \in 1..Len(existing_cart) :
                    Similar(candidate.name, candidate.brand,
                            existing_cart[i].name, existing_cart[i].brand) }
    IN  IF hits = {} THEN 0 ELSE CHOOSE i \in hits : \A j \in hits : i <= j

\* the merge that also takes the name and the brand of the merged entry
MergeInto_renaming(merged_item, item_data) ==
    [merged_item EXCEPT
        !.name = item_data.name,
        !.brand = item_data.brand,
        !.count = @ + item_data.count,
        !.confidence = Max(@, item_data.confidence),
        !.last_seen = Max(@, item_data.last_seen),
        !.deal_analysis = IF item_data.deal_analysis # None THEN item_data.deal_analysis ELSE @,
        !.price = IF item_data.price # None /\ @ = None THEN item_data.price ELSE @,
        !.image_path = IF item_data.image_path # None THEN item_data.image_path ELSE @]

MergeInto(merged_item, item_data) ==
    [merged_item EXCEPT
        !.count = @ + item_data.count,
        !.confidence = Max(@, item_data.confidence),
        !.last_seen = Max(@, item_data.last_seen),
        !.deal_analysis = IF item_data.deal_analysis # None THEN item_data.deal_analysis ELSE @,
        !.price = IF item_data.price # None /\ @ = None THEN item_data.price ELSE @,
        !.image_path = IF item_data.image_path # None THEN item_data.image_path ELSE @]

RECURSIVE DedupFrom(_, _, _)
DedupFrom(c, i, deduplicated_cart) ==
    IF i > Len(c) THEN deduplicated_cart
    ELSE LET m == find_matching_cart_key(deduplicated_cart, c[i])
         IN  DedupFrom(c, i + 1,
                 IF m # 0
                 THEN [deduplicated_cart EXCEPT ![m] = MergeInto(@, c[i])]
                 ELSE Append(deduplicated_cart, c[i]))

deduplicate_cart_entries(c) == DedupFrom(c, 1, <<>>)

PringlesOriginal ==
    Classification(<<"Pringles", "Original">>, <<"Pringles">>, <<"snack">>, 93)

\* Entries a cart is drawn from: entries as update_cart makes them, some
\* with a count, a deal analysis and a price as later updates leave them.
\* Their keys differ; some match one another in reconciliation.
CartPool ==
    { NewCartItem(CokeCan, <<10, "motion">>, 20),
      [ NewCartItem(Classification(<<"Coca-Cola", "Bottle">>, <<"Coca-Cola">>,
                                   <<"beverage">>, 97), None, 25)
          EXCEPT !.count = 2, !.deal_analysis = <<"live">>, !.price = <<219>> ],
      NewCartItem(Coke12oz, <<12, "motion">>, 24),
      NewCartItem(PringlesOriginal, <<11, "motion">>, 22),
      [ NewCartItem(Classification(<<"Pringles">>, <<"Pringles">>, <<"snack">>, 90),
                    <<13, "scene_change">>, 26)
          EXCEPT !.deal_analysis = <<"cached">>, !.price = <<150>> ],
      NewCartItem(Classification(<<"Pringles", "Chips">>, <<"Pringles">>,
                                 <<"snack">>, 91), None, 21),
      NewCartItem(SnackPack, <<14, "motion">>, 28) }

\* the carts of up to MaxCart entries of the pool, in every order
Carts ==
    UNION { { c \in [1..n -> CartPool] : \A i, j \in 1..n : c[i] = c[j] => i = j } :
            n \in 0..MaxCart }

\* ------------------------------------------------------------------------
\* check_cart_duplicate_with_llm: the reading of the response
\* ------------------------------------------------------------------------

\* A response text is a sequence of tokens: punctuation, code fences,
\* JSON literals, JSON strings, JSON numbers and words of prose.
Tok(k, v) == [k |-> k, v |-> v]

P(v) == Tok("punct", v)

Lit(v) == Tok("lit", v)

Str(v) == Tok("str", v)

Num(v) == Tok("num", v)

Word(v) == Tok("word", v)

\* a markdown code fence (three backticks) with its language tag
Fence(lang) == Tok("fence", lang)

\* Python values: a JSON value as json.loads returns it, or the
\* JSONDecodeError it raises (t = "error").
PyVal(t, v, members) == [t |-> t, v |-> v, members |-> members]

PyTrue == PyVal("bool", "True", <<>>)

PyFalse == PyVal("bool", "False", <<>>)

PyNone == PyVal("none", "None", <<>>)

JSONDecodeError == PyVal("error", "JSONDecodeError", <<>>)

IsScalar(tok) == tok.k \in { "lit", "str", "num" }

Scalar(tok) ==
    IF tok.k = "lit"
    THEN (IF tok.v = "true" THEN PyTrue ELSE IF tok.v = "false" THEN PyFalse ELSE PyNone)
    ELSE IF tok.k = "str" THEN PyVal("str", tok.v, <<>>)
    ELSE PyVal("int", tok.v, <<>>)

\* bool(x) of a Python value
Truthy(x) ==
    \/ x.t = "bool" /\ x.v = "True"
    \/ x.t = "str" /\ x.v # ""
    \/ x.t = "int" /\ x.v # "0"
    \/ x.t \in { "list", "dict" } /\ x.members # <<>>

\* key : value (, key : value)*
RECURSIVE IsMembers(_)
IsMembers(m) ==
    /\ Len(m) >= 3
    /\ m[1].k = "str"
    /\ m[2] = P(":")
    /\ IsScalar(m[3])
    /\ \/ Len(m) = 3
       \/ Len(m) > 4 /\ m[4] = P(",") /\ IsMembers(SubSeq(m, 5, Len(m)))

RECURSIVE MembersOf(_)
MembersOf(m) ==
    IF Len(m) < 3 THEN <<>>
    ELSE << <<m[1].v, Scalar(m[3])>> >> \o MembersOf(SubSeq(m, 5, Len(m)))

\* value (, value)*
RECURSIVE IsElements(_)
IsElements(e) ==
    /\ Len(e) >= 1
    /\ IsScalar(e[1])
    /\ \/ Len(e) = 1
       \/ Len(e) > 2 /\ e[2] = P(",") /\ IsElements(SubSeq(e, 3, Len(e)))

\* json.loads on texts of scalars, arrays of scalars and objects of scalars
json_loads(text) ==
    LET n == Len(text)
        inner == SubSeq(text, 2, n - 1)
    IN  IF n = 1 /\ IsScalar(text[1]) THEN Scalar(text[1])
        ELSE IF n >= 2 /\ text[1] = P("{") /\ text[n] = P("}")
        THEN (IF n = 2 THEN PyVal("dict", "", <<>>)
              ELSE IF IsMembers(inner) THEN PyVal("dict", "", MembersOf(inner))
              ELSE JSONDecodeError)
        ELSE IF n >= 2 /\ text[1] = P("[") /\ text[n] = P("]")
        THEN (IF n = 2 THEN PyVal("list", "", <<>>)
              ELSE IF IsElements(inner) THEN PyVal("list", "", << inner >>)
              ELSE JSONDecodeError)
        ELSE JSONDecodeError

\* dict.get(key, default): the last member of that key
DictGet(d, key, default) ==
    LET hits == { i \in 1..Len(d.members) : d.members[i][1] = key }
    IN  IF hits = {} THEN default
        ELSE d.members[CHOOSE i \in hits : \A j \in hits : j <= i][2]

\* lines 816-820: the markdown code fence around the text is removed
StripFence(text) ==
    IF text # <<>> /\ Head(text) \in { Fence(""), Fence("json") }
    THEN LET rest == Tail(text)
         IN  IF rest # <<>> /\ rest[Len(rest)] = Fence("")
             THEN SubSeq(rest, 1, Len(rest) - 1)
             ELSE rest
    ELSE text

\* line 822: the search for an opening brace, anything, a closing brace:
\* from the first opening brace to the last closing brace after it; None
\* without a match
json_match(text) ==
    LET opens == { i \in 1..Len(text) : text[i] = P("{") }
    IN  IF opens = {} THEN None
        ELSE LET first == CHOOSE i \in opens : \A j \in opens : i <= j
                 closes == { i \in first + 1..Len(text) : text[i] = P("}") }
             IN  IF closes = {} THEN None
                 ELSE SubSeq(text, first, CHOOSE i \in closes : \A j \in closes : j <= i)

\* lines 816-827: the value the response text is parsed to
ParseResponse(text) ==
    LET cleaned_text == StripFence(text)
        json_str == json_match(cleaned_text)
    IN  IF json_str # None THEN json_loads(json_str) ELSE json_loads(cleaned_text)

\* What generate_content does in its thread: it raises, or it returns a
\* response with a text.
Response(raises, text) == [raises |-> raises, text |-> text]

\* check_cart_duplicate_with_llm: what it returns on a response.  Every
\* exception ends in a return of False (lines 844-851).
check_cart_duplicate_with_llm(available, response) ==
    IF ~ available THEN PyFalse
    ELSE IF response.raises THEN PyFalse
    ELSE LET result == ParseResponse(response.text)
         IN  IF result.t = "error" THEN PyFalse
             ELSE IF result.t # "dict" THEN PyFalse
             ELSE DictGet(result, "is_duplicate", PyFalse)

IsDup(value) == << P("{"), Str("is_duplicate"), P(":"), value, P("}") >>

\* The responses explored.
LLMResponses ==
    { Response(TRUE, <<>>),
      Response(FALSE, <<>>),
      Response(FALSE, << Word("Sure") >>),
      Response(FALSE, IsDup(Lit("true"))),
      Response(FALSE, IsDup(Lit("false"))),
      Response(FALSE, << Fence("json") >> \o IsDup(Lit("true")) \o << Fence("") >>),
      Response(FALSE, << Fence("") >> \o IsDup(Lit("false")) \o << Fence("") >>),
      Response(FALSE, << Word("Sure") >> \o IsDup(Lit("true"))),
      Response(FALSE, << P("{"), Str("is_duplicate"), P(":"), Lit("true"), P(","),
                         Str("reason"), P(":"), Str("same"), P("}") >>),
      Response(FALSE, << P("{"), Str("reason"), P(":"), Str("same"), P("}") >>),
      Response(FALSE, << P("{"), P("}") >>),
      Response(FALSE, << P("{"), Str("is_duplicate"), Lit("true"), P("}") >>),
      Response(FALSE, << P("{"), Str("is_duplicate"), P(":"), Lit("true") >>),
      Response(FALSE, << P("["), Lit("true"), P("]") >>),
      Response(FALSE, << P("[") >> \o IsDup(Lit("true")) \o << P("]") >>),
      Response(FALSE, << Lit("true") >>),
      Response(FALSE, IsDup(Lit("null"))),
      Response(FALSE, IsDup(Num("0"))),
      Response(FALSE, IsDup(Str(""))),
      Response(FALSE, IsDup(Str("false"))) }

\* ------------------------------------------------------------------------
\* classify_with_gemini: the reading of the response
\* ------------------------------------------------------------------------

\* The words of a JSON string and the percents of a JSON number, as the
\* model writes names and confidences.
Words(v) ==
    IF v = "Coca-Cola Can" THEN <<"Coca-Cola", "Can">>
    ELSE IF v = "Coke 12oz" THEN <<"Coke", "12oz">>
    ELSE IF v = "Milk Carton" THEN <<"Milk", "Carton">>
    ELSE <<v>>

Percent(v) ==
    IF v = "0.95" THEN 95
    ELSE IF v = "0.92" THEN 92
    ELSE IF v = "0.5" THEN 50
    ELSE 0

\* The object run and update_cart read off the dict with
\* get(key, 'Unknown') and get('confidence', 0.0).
AsObject(d) ==
    Classification(Words(DictGet(d, "object_name", PyVal("str", "Unknown", <<>>)).v),
                   Words(DictGet(d, "brand", PyVal("str", "Unknown", <<>>)).v),
                   Words(DictGet(d, "category", PyVal("str", "Unknown", <<>>)).v),
                   Percent(DictGet(d, "confidence", PyVal("int", "0.0", <<>>)).v))

\* the fallback records of lines 1207-1213 and 1220-1226
UnknownRecord ==
    AsObject(PyVal("dict", "", << <<"object_name", PyVal("str", "Unknown", <<>>)>>,
                                 <<"category", PyVal("str", "Unknown", <<>>)>>,
                                 <<"confidence", PyVal("int", "0.5", <<>>)>> >>))

ErrorRecord ==
    AsObject(PyVal("dict", "", << <<"object_name", PyVal("str", "Error", <<>>)>>,
                                 <<"brand", PyVal("str", "Unknown", <<>>)>>,
                                 <<"category", PyVal("str", "error", <<>>)>>,
                                 <<"confidence", PyVal("int", "0.0", <<>>)>> >>))

\* lines 1193-1202: the text handed to json.loads.  After a json fence it
\* runs up to the next fence or, without one, up to the last character
\* (find returns -1); else from the first opening brace to the last closing
\* brace when the text holds both; else it is the whole text.
JsonText(text) ==
    LET n == Len(text)
        fences == { i \in 1..n : text[i] = Fence("json") }
        opens == { i \in 1..n : text[i] = P("{") }
        closes == { i \in 1..n : text[i] = P("}") }
    IN  IF fences # {}
        THEN LET json_start == (CHOOSE i \in fences : \A j \in fences : i <= j) + 1
                 ends == { i \in json_start..n : text[i].k = "fence" }
             IN  IF ends = {} THEN SubSeq(text, json_start, n - 1)
                 ELSE SubSeq(text, json_start,
                             (CHOOSE i \in ends : \A j \in ends : i <= j) - 1)
        ELSE IF opens # {} /\ closes # {}
        THEN SubSeq(text, CHOOSE i \in opens : \A j \in opens : i <= j,
                          CHOOSE i \in closes : \A j \in closes : j <= i)
        ELSE text

\* the function returning None where it returns a fallback record
classify_with_gemini_none(response) ==
    IF response.raises THEN NoResult
    ELSE IF response.text = <<>> THEN NoResult
    ELSE LET result == json_loads(JsonText(response.text))
         IN  IF result.t = "error" THEN NoResult
             ELSE Dict(AsObject(result))

\* classify_with_gemini, called with a client: what it returns on a
\* response whose text, where it parses, is a JSON object
classify_with_gemini(response) ==
    IF response.raises THEN Dict(ErrorRecord)
    ELSE IF response.text = <<>> THEN NoResult
    ELSE LET result == json_loads(JsonText(response.text))
         IN  IF result.t = "error" THEN Dict(UnknownRecord)
             ELSE Dict(AsObject(result))

ObjectText(object_name, brand, category, confidence) ==
    << P("{"), Str("object_name"), P(":"), Str(object_name), P(","),
       Str("brand"), P(":"), Str(brand), P(","),
       Str("category"), P(":"), Str(category), P(","),
       Str("confidence"), P(":"), Num(confidence), P("}") >>

CokeCanText == ObjectText("Coca-Cola Can", "Coca-Cola", "beverage", "0.95")

Coke12ozText == ObjectText("Coke 12oz", "Coca-Cola", "beverage", "0.92")

\* The responses explored.
ClassifierResponses ==
    { Response(TRUE, <<>>),
      Response(FALSE, <<>>),
      Response(FALSE, << Word("a"), Word("can") >>),
      Response(FALSE, CokeCanText),
      Response(FALSE, << Fence("json") >> \o CokeCanText \o << Fence("") >>),
      Response(FALSE, << Word("Sure") >> \o Coke12ozText),
      Response(FALSE, ObjectText("Milk Carton", "Unknown", "dairy", "0.95")),
      Response(FALSE, << Fence("json") >> \o CokeCanText),
      Response(FALSE, << P("{"), Str("object_name"), Str("Coke 12oz"), P("}") >>),
      Response(FALSE, << P("{"), Str("object_name"), P(":"), Str("Coke 12oz") >>),
      Response(FALSE, << P("}"), Word("or"), P("{") >>) }

\* ------------------------------------------------------------------------
\* State
\* ------------------------------------------------------------------------
VARIABLES
    now,                         \* the clock, time.time(), in ticks
    pc,                          \* where the task of run() stands
    gemini_available,            \* result of setup_gemini_client()
    cap,                         \* the cv2.VideoCapture: "closed", "open", "released"
    frame_count,
    current_time,                \* run's current_time of the frame in hand
    last_capture_time,
    last_api_call_time,
    last_classification_result,
    cart,
    bag_detected,
    bag_detection_confidence,
    all_classifications,
    flush_task,                  \* self._flush_task
    writers,                     \* running threads of save_results_to_json
    results_file,                \* the document last written to results.json
    background_tasks,            \* the perform_deal_analysis tasks not yet done
    ctx,                         \* locals of the frame in hand across its awaits
    flush_log,                   \* history: one record per call of schedule_cart_flush
    frame_log,                   \* history: one record per frame read
    llm_response,                \* the response read last at line 808 of the check
                                 \* of update_cart, where the run follows the responses
    classifier_response,         \* the response read last at line 1188, likewise
    results_text,                \* the content of results.json on disk, in chunks,
                                 \* where the run follows the write in its steps
    open_files,                  \* likewise: the position of the file object f of
                                 \* each thread that has opened the file
    previous_frame,              \* the frame process_frame stored last, where the
                                 \* run follows the frames by their histograms
    previous_histogram           \* likewise: the histogram detect_scene_change
                                 \* has stored

vars == << now, pc, gemini_available, cap, frame_count, current_time,
           last_capture_time, last_api_call_time, last_classification_result,
           cart, bag_detected, bag_detection_confidence, all_classifications,
           flush_task, writers, results_file, background_tasks, ctx,
           flush_log, frame_log, llm_response,
           classifier_response, results_text, open_files,
           previous_frame, previous_histogram >>

NoCtx == [image_path |-> None, objs |-> <<>>, idx |-> 0, utime |-> 0,
          modified |-> FALSE, analyse |-> FALSE]

NoFlush == [st |-> "none", due |-> 0, id |-> 0]

\* The awaits at which the task of run() is suspended and the loop runs
\* the other tasks.
Suspended ==
    pc \in { "classify", "llm_run", "llm_cart", "gather", "await_flush", "final_save" }

\* A task of perform_deal_analysis is inside scrape_google_shopping_deals
\* (line 437), a plain call that does not return to the loop: no other
\* task runs until it returns.
Blocked == \E t \in background_tasks : t.st = "searching"

\* What save_results_to_json serializes: the cart and the classifications
\* as they are when its thread starts (line 864 builds the document before
\* the file is opened).  The document refers to the cart dict and to the
\* list of classifications themselves, not to copies: a thread whose state
\* differs from its document while it writes (C29) reads objects that the
\* loop has changed since, and what it writes of them is not determined.
Doc(c, classifications) == [cart |-> c, n |-> Len(classifications)]

\* json.dump(results, f) of line 895 writes the document through the buffer
\* of f in chunks: the keys before shopping_cart, one chunk for each entry
\* of the cart, the keys after it.  Where the buffer is flushed is left
\* open; the chunks are the finest case.
Chunk(k, v) == [k |-> k, v |-> v]

json_dump(doc) ==
    << Chunk("head", <<>>) >>
    \o [i \in 1..Len(doc.cart) |-> Chunk("entry", << doc.cart[i] >>)]
    \o << Chunk("tail", << doc.n >>) >>

\* a range of a file that was never written reads as zero bytes
Hole == Chunk("hole", <<>>)

\* f.write at position pos of the file (the position counts the chunks
\* written before): the chunk replaces what is there or extends the file,
\* over a hole when the file is shorter than pos
WriteAt(text, pos, chunk) ==
    IF pos < Len(text)
    THEN [text EXCEPT ![pos + 1] = chunk]
    ELSE text \o [i \in 1..(pos - Len(text)) |-> Hole] \o << chunk >>

\* json.load of shopping_cart_api.py line 34 succeeds on a whole document
IsDocument(text) ==
    /\ Len(text) >= 2
    /\ text[1].k = "head"
    /\ text[Len(text)].k = "tail"
    /\ \A i \in 2..(Len(text) - 1) : text[i].k = "entry"

HTTP500 == [status_code |-> 500]

\* load_results of the shopping-cart API: the document, or the error of
\* lines 35-36
load_results(text) ==
    IF IsDocument(text)
    THEN [cart |-> [i \in 1..(Len(text) - 2) |-> text[i + 1].v[1]],
          n |-> text[Len(text)].v[1]]
    ELSE HTTP500

Init ==
    /\ now = StartTime
    /\ pc = "start"
    /\ gemini_available \in BOOLEAN
    /\ cap = "closed"
    /\ frame_count = 0
    /\ current_time = 0
    /\ last_capture_time = 0
    /\ last_api_call_time = 0
    /\ last_classification_result = NoResult
    /\ cart = <<>>
    /\ bag_detected = FALSE
    /\ bag_detection_confidence = 0
    /\ all_classifications = <<>>
    /\ flush_task = NoFlush
    /\ writers = {}
    /\ results_file = Doc(<<>>, <<>>)
    /\ background_tasks = {}
    /\ ctx = NoCtx
    /\ flush_log = <<>>
    /\ frame_log = <<>>
    /\ llm_response = <<>>
    /\ classifier_response = <<>>
    /\ results_text = json_dump(Doc(<<>>, <<>>))
    /\ open_files = << >>
    /\ previous_frame = None
    /\ previous_histogram = None

\* ------------------------------------------------------------------------
\* schedule_cart_flush: cancel the flush task, create a new one.  A task
\* cancelled while it awaits its writer thread ends, the thread runs on.
\* ------------------------------------------------------------------------
NewFlushTask(log) == [st |-> "created", due |-> 0, id |-> Len(log) + 1]

schedule_cart_flush ==
    /\ flush_task' = NewFlushTask(flush_log)
    /\ flush_log' = Append(flush_log, [at |-> now, runs |-> 0, began |-> 0, failed |-> FALSE])

\* ------------------------------------------------------------------------
\* update_cart
\* ------------------------------------------------------------------------

\* the confidence check of lines 293-296, and the check with its
\* comparison inverted
LowConfidence_inverted(obj) == obj.confidence > MIN_CONFIDENCE_THRESHOLD

LowConfidence(obj) == obj.confidence < MIN_CONFIDENCE_THRESHOLD

\* The loop over the objects from the i-th on, up to the await of
\* check_cart_duplicate_with_llm (wait = its index) or the end (wait = 0).
RECURSIVE UpdateLoop(_, _, _)
UpdateLoop(objs, i, s) ==
    IF i > Len(objs) THEN [s EXCEPT !.wait = 0]
    ELSE LET obj == objs[i]
         IN  IF LowConfidence(obj)
             THEN UpdateLoop(objs, i + 1, s)
             ELSE IF is_bag(obj)
             THEN UpdateLoop(objs, i + 1,
                      [s EXCEPT !.bag = TRUE, !.bagconf = obj.confidence])
             ELSE IF IsSentinel(obj) THEN UpdateLoop(objs, i + 1, s)
             ELSE IF ~ is_grocery_item(obj) THEN UpdateLoop(objs, i + 1, s)
             ELSE IF is_duplicate_item(s.cart, obj.object_name,
                                       normalize_brand_name(obj.brand))
             THEN UpdateLoop(objs, i + 1, s)
             ELSE [s EXCEPT !.wait = i]

UpdateState(modified) ==
    [cart |-> cart, bag |-> bag_detected, bagconf |-> bag_detection_confidence,
     modified |-> modified, wait |-> 0]

\* The task created at lines 1606-1611 of run.
NewTask(obj) ==
    [ id |-> frame_count,
      object_name |-> obj.object_name,
      brand |-> normalize_brand_name(obj.brand),
      category |-> obj.category,
      item_key |-> ItemKey(obj.object_name, normalize_brand_name(obj.brand)),
      st |-> "created" ]

LastFrame(log) == log[Len(log)]

\* update_cart has run to its await (s.wait # 0) or to its end; at its end
\* the flush is scheduled if the cart was modified, and run goes on to
\* create the deal analysis task and to the next frame.
Proceed(s, c, log) ==
    /\ cart' = s.cart
    /\ bag_detected' = s.bag
    /\ bag_detection_confidence' = s.bagconf
    /\ IF s.wait # 0
       THEN /\ pc' = "llm_cart"
            /\ ctx' = [c EXCEPT !.idx = s.wait, !.modified = s.modified]
            /\ frame_log' = [log EXCEPT ![Len(log)].started = TRUE]
            /\ UNCHANGED << flush_task, flush_log, background_tasks >>
       ELSE /\ pc' = "frame"
            /\ ctx' = NoCtx
            /\ frame_log' = [log EXCEPT ![Len(log)].started = TRUE,
                                        ![Len(log)].finished = TRUE,
                                        ![Len(log)].modified = s.modified]
            /\ IF s.modified THEN schedule_cart_flush
                             ELSE UNCHANGED << flush_task, flush_log >>
            /\ background_tasks' =
                  IF c.analyse THEN background_tasks \cup { NewTask(c.objs[1]) }
                               ELSE background_tasks

\* update_cart(classification_result, image_path) from its first line
update_cart(c, log) ==
    Proceed(UpdateLoop(c.objs, 1, UpdateState(FALSE)), [c EXCEPT !.utime = now], log)

\* ------------------------------------------------------------------------
\* run: the frame loop
\* ------------------------------------------------------------------------

\* run up to the try: the video source opens or run returns at once
Start(opened) ==
    /\ pc = "start"
    /\ IF opened THEN cap' = "open" /\ pc' = "frame"
                 ELSE cap' = cap /\ pc' = "done"
    /\ UNCHANGED << now, gemini_available, previous_frame, previous_histogram, results_text, open_files, llm_response, classifier_response, frame_count, current_time,
                    last_capture_time, last_api_call_time,
                    last_classification_result, cart, bag_detected,
                    bag_detection_confidence, all_classifications, flush_task,
                    writers, results_file, background_tasks, ctx, flush_log,
                    frame_log >>

\* should_skip_classification with the cooldown of the captures
should_skip_classification_capture(t) == t - last_api_call_time < CAPTURE_COOLDOWN

should_skip_classification(t) == t - last_api_call_time < CLASSIFICATION_COOLDOWN

\* capture_image: the path of the saved image (second of the clock and
\* label), or None within the cooldown or when cv2.imwrite fails
CaptureCooldownActive_inverted == now - last_capture_time > CAPTURE_COOLDOWN

CaptureCooldownActive == now - last_capture_time < CAPTURE_COOLDOWN

capture_image(label, wrote) ==
    IF CaptureCooldownActive THEN None
    ELSE IF wrote THEN <<now \div 2, label>>
    ELSE None

\* the record of a dispatch without its skipped flag set
ClassificationRecord_unflagged(source, image_path, result, skipped) ==
    [ timestamp |-> now,
      frame_number |-> frame_count',
      detection_source |-> source,
      image_path |-> image_path,
      success |-> IF skipped THEN TRUE ELSE result.kind # "none",
      result |-> result,
      skipped |-> FALSE ]

ClassificationRecord(source, image_path, result, skipped) ==
    [ timestamp |-> now,
      frame_number |-> frame_count',
      detection_source |-> source,
      image_path |-> image_path,
      success |-> IF skipped THEN TRUE ELSE result.kind # "none",
      result |-> result,
      skipped |-> skipped ]

FrameRecord(det, failed, image_path, dispatch, result) ==
    [ frame |-> frame_count', t |-> now, det |-> det, failed |-> failed,
      saved |-> image_path # None, dispatch |-> dispatch, result |-> result,
      started |-> FALSE, finished |-> FALSE, modified |-> FALSE ]

\* One pass of the while loop from cap.read() to the first await that
\* suspends: process_frame (det: what it detects in the center region),
\* capture_image, and the dispatch of the capture.
FrameStep(det, wrote) ==
    /\ pc = "frame"
    /\ frame_count < MaxFrames
    /\ frame_count' = frame_count + 1
    /\ current_time' = now
    /\ LET image_path == IF det = "none" THEN None ELSE capture_image(det, wrote)
           failed == det # "none" /\ ~ CaptureCooldownActive /\ ~ wrote
       IN  /\ last_capture_time' = IF image_path # None THEN now ELSE last_capture_time
           /\ IF image_path = None \/ ~ gemini_available
              THEN /\ frame_log' = Append(frame_log, FrameRecord(det, failed, image_path, "none", NoResult))
                   /\ UNCHANGED << pc, ctx, all_classifications, cart, bag_detected,
                                   bag_detection_confidence, flush_task, flush_log,
                                   background_tasks >>
              ELSE IF should_skip_classification(now)
              THEN /\ all_classifications' = Append(all_classifications,
                          ClassificationRecord(det, image_path, last_classification_result, TRUE))
                   /\ LET log == Append(frame_log,
                                     FrameRecord(det, failed, image_path, "reuse", last_classification_result))
                      IN  IF last_classification_result.kind # "none"
                          THEN update_cart([NoCtx EXCEPT !.image_path = image_path,
                                                         !.objs = last_classification_result.objs],
                                           log)
                          ELSE /\ frame_log' = log
                               /\ UNCHANGED << pc, ctx, cart, bag_detected,
                                               bag_detection_confidence, flush_task,
                                               flush_log, background_tasks >>
              ELSE /\ pc' = "classify"
                   /\ ctx' = [NoCtx EXCEPT !.image_path = image_path]
                   /\ frame_log' = Append(frame_log, FrameRecord(det, failed, image_path, "call", NoResult))
                   /\ UNCHANGED << all_classifications, cart, bag_detected,
                                   bag_detection_confidence, flush_task, flush_log,
                                   background_tasks >>
    /\ UNCHANGED << now, gemini_available, results_text, open_files, llm_response, classifier_response, cap, last_api_call_time,
                    last_classification_result, writers, results_file >>

Frame(det, wrote) ==
    /\ FrameStep(det, wrote)
    /\ UNCHANGED << previous_frame, previous_histogram >>

\* A frame is followed by its luminance histogram, one of four levels of
\* brightness (0 to 3).  cv2.compareHist(..., HISTCMP_CORREL) of line
\* 1080, in percent: 100 for equal histograms, less for each level between
\* them.
compareHist(h1, h2) == 100 - 25 * (IF h1 > h2 THEN h1 - h2 ELSE h2 - h1)

\* detect_scene_change, lines 1070-1092: the signal, and the histogram
\* stored when it returns
detect_scene_change(stored, current_histogram) ==
    IF stored # None
    THEN [ scene_changed |-> compareHist(stored[1], current_histogram)
                                < HISTOGRAM_COMPARISON_THRESHOLD,
           previous_histogram |-> stored ]
    ELSE [ scene_changed |-> FALSE, previous_histogram |-> << current_histogram >> ]

\* The same pass of the loop, followed from the frame: process_frame
\* (lines 1335-1377) computes the detection from the scene change and the
\* motion in the center region and stores the frame.
ProcessFrame(frame, motion_detected, wrote) ==
    LET scene == detect_scene_change(previous_histogram, frame)
        det == IF scene.scene_changed THEN "scene_change"
               ELSE IF motion_detected THEN "motion"
               ELSE "none"
    IN  /\ FrameStep(det, wrote)
        /\ previous_histogram' = scene.previous_histogram
        /\ previous_frame' = << frame >>

\* lines 1584-1586 of run
ValidGrocery(obj) ==
    /\ obj.confidence >= MIN_CONFIDENCE_THRESHOLD
    /\ ~ IsSentinel(obj)
    /\ is_grocery_item(obj)

\* classify_with_gemini returns: lines 1555-1603 up to the next await
ClassifyResume(res) ==
    /\ pc = "classify"
    /\ ~ Blocked
    /\ all_classifications' = Append(all_classifications,
           [ timestamp |-> now, frame_number |-> frame_count,
             detection_source |-> LastFrame(frame_log).det,
             image_path |-> ctx.image_path,
             success |-> res.kind # "none", result |-> res, skipped |-> FALSE ])
    /\ last_api_call_time' = current_time
    /\ last_classification_result' = res
    /\ LET log == [frame_log EXCEPT ![Len(frame_log)].result = res]
       IN  IF res.kind = "none" \/ res.objs = <<>>
           THEN /\ pc' = "frame"
                /\ ctx' = NoCtx
                /\ frame_log' = log
                /\ UNCHANGED << cart, bag_detected, bag_detection_confidence,
                                flush_task, flush_log, background_tasks,
                                cap, writers >>
           ELSE IF res.kind = "list"
           THEN \* classification.get of line 1574 raises AttributeError on a
                \* list; no handler of run catches it (line 1658 catches
                \* KeyboardInterrupt only), so the finally block of lines
                \* 1660-1680 runs and run then raises
                /\ ctx' = NoCtx
                /\ frame_log' = log
                /\ IF background_tasks # {}
                   THEN pc' = "gather" /\ UNCHANGED << cap, cart, writers >>
                   ELSE IF flush_task.st \in { "created", "sleeping", "writing" }
                   THEN pc' = "await_flush" /\ UNCHANGED << cap, cart, writers >>
                   ELSE /\ cap' = "released"
                        /\ cart' = deduplicate_cart_entries(cart)
                        /\ writers' = writers \cup
                               { [fid |-> 0, doc |-> Doc(cart', all_classifications')] }
                        /\ pc' = "final_save"
                /\ UNCHANGED << bag_detected, bag_detection_confidence,
                                flush_task, flush_log, background_tasks >>
           ELSE IF ValidGrocery(res.objs[1])
           THEN /\ pc' = "llm_run"
                /\ ctx' = [ctx EXCEPT !.objs = res.objs]
                /\ frame_log' = log
                /\ UNCHANGED << cart, bag_detected, bag_detection_confidence,
                                flush_task, flush_log, background_tasks,
                                cap, writers >>
           ELSE /\ update_cart([ctx EXCEPT !.objs = res.objs], log)
                /\ UNCHANGED << cap, writers >>
    /\ UNCHANGED << now, gemini_available, previous_frame, previous_histogram, results_text, open_files, frame_count, current_time,
                    last_capture_time, results_file >>

ClassifyReturn(res) ==
    /\ ClassifyResume(res)
    /\ UNCHANGED << llm_response, classifier_response >>

\* The same return, followed from the response of the external service:
\* the thread of line 1182 ends with the response and classify_with_gemini
\* reads it.
ClassifyResponse(response) ==
    /\ ClassifyResume(classify_with_gemini(response))
    /\ classifier_response' = << response >>
    /\ UNCHANGED llm_response

\* check_cart_duplicate_with_llm of line 1592 returns is_duplicate_llm;
\* lines 1595-1603: the simple check, then update_cart up to its await
LLMRunReturn(is_duplicate_llm) ==
    /\ pc = "llm_run"
    /\ ~ Blocked
    /\ LET obj == ctx.objs[1]
           is_duplicate_simple ==
               is_duplicate_item(cart, obj.object_name, normalize_brand_name(obj.brand))
       IN  \E should_analyze \in BOOLEAN :
               /\ should_analyze = (~ is_duplicate_llm /\ ~ is_duplicate_simple)
               /\ update_cart([ctx EXCEPT !.analyse = should_analyze], frame_log)
    /\ UNCHANGED << now, gemini_available, previous_frame, previous_histogram, results_text, open_files, llm_response, classifier_response, cap, frame_count, current_time,
                    last_capture_time, last_api_call_time,
                    last_classification_result, all_classifications, writers,
                    results_file >>

\* check_cart_duplicate_with_llm of line 322 returns is_duplicate;
\* update_cart goes on from line 323
UpdateCartResume(is_duplicate) ==
    /\ pc = "llm_cart"
    /\ ~ Blocked
    /\ LET obj == ctx.objs[ctx.idx]
           s0 == UpdateState(ctx.modified)
           s1 == IF is_duplicate THEN s0
                 ELSE [s0 EXCEPT !.cart = AddOrUpdate(cart, obj, ctx.image_path, ctx.utime),
                                 !.modified = TRUE]
       IN  Proceed(UpdateLoop(ctx.objs, ctx.idx + 1, s1), ctx, frame_log)
    /\ UNCHANGED << now, gemini_available, previous_frame, previous_histogram, results_text, open_files, cap, frame_count, current_time,
                    last_capture_time, last_api_call_time,
                    last_classification_result, all_classifications, writers,
                    results_file >>

LLMCartReturn(is_duplicate) ==
    /\ UpdateCartResume(is_duplicate)
    /\ UNCHANGED << llm_response, classifier_response >>

\* The same return, followed from the response of the external service:
\* the thread of line 803 ends with the response, the check reads it and
\* update_cart tests what the check returns (line 323).
LLMCartResponse(response) ==
    /\ UpdateCartResume(Truthy(check_cart_duplicate_with_llm(gemini_available, response)))
    /\ llm_response' = << response >>
    /\ UNCHANGED classifier_response

\* ------------------------------------------------------------------------
\* run: the finally block
\* ------------------------------------------------------------------------

\* deduplicate_and_save_cart up to its await: the reconciliation pass, then
\* the thread of save_results_to_json (fid: the flush it serves, 0 for run)
StartSave(fid) ==
    /\ cart' = deduplicate_cart_entries(cart)
    /\ writers' = writers \cup { [fid |-> fid, doc |-> Doc(cart', all_classifications)] }

\* lines 1672-1680: release the capture, then the last save
ReleaseAndSave ==
    /\ cap' = "released"
    /\ StartSave(0)
    /\ pc' = "final_save"

FlushPending == flush_task.st \in { "created", "sleeping", "writing" }

\* the finally block without the await of the flush task
AwaitFlush_skipped == ReleaseAndSave

\* lines 1666-1670
AwaitFlush ==
    IF FlushPending
    THEN pc' = "await_flush" /\ UNCHANGED << cap, cart, writers >>
    ELSE ReleaseAndSave

\* The loop is left (end of video, read failure, 'q', interrupt);
\* lines 1662-1664
Exit ==
    /\ pc = "frame"
    /\ IF background_tasks # {}
       THEN pc' = "gather" /\ UNCHANGED << cap, cart, writers >>
       ELSE AwaitFlush
    /\ UNCHANGED << now, gemini_available, previous_frame, previous_histogram, results_text, open_files, llm_response, classifier_response, frame_count, current_time,
                    last_capture_time, last_api_call_time,
                    last_classification_result, bag_detected,
                    bag_detection_confidence, all_classifications, flush_task,
                    results_file, background_tasks, ctx, flush_log, frame_log >>

GatherDone ==
    /\ pc = "gather"
    /\ ~ Blocked
    /\ background_tasks = {}
    /\ AwaitFlush
    /\ UNCHANGED << now, gemini_available, previous_frame, previous_histogram, results_text, open_files, llm_response, classifier_response, frame_count, current_time,
                    last_capture_time, last_api_call_time,
                    last_classification_result, bag_detected,
                    bag_detection_confidence, all_classifications, flush_task,
                    results_file, background_tasks, ctx, flush_log, frame_log >>

FlushAwaited ==
    /\ pc = "await_flush"
    /\ ~ Blocked
    /\ ~ FlushPending
    /\ ReleaseAndSave
    /\ UNCHANGED << now, gemini_available, previous_frame, previous_histogram, results_text, open_files, llm_response, classifier_response, frame_count, current_time,
                    last_capture_time, last_api_call_time,
                    last_classification_result, bag_detected,
                    bag_detection_confidence, all_classifications, flush_task,
                    results_file, background_tasks, ctx, flush_log, frame_log >>

\* ------------------------------------------------------------------------
\* The flush task (_flush_task_wrapper) and the writer threads
\* ------------------------------------------------------------------------

\* the flush task without its delay
FlushStart_no_delay ==
    /\ Suspended /\ ~ Blocked
    /\ flush_task.st = "created"
    /\ flush_task' = [flush_task EXCEPT !.st = "sleeping", !.due = now]
    /\ UNCHANGED << now, pc, gemini_available, previous_frame, previous_histogram, results_text, open_files, llm_response, classifier_response, cap, frame_count, current_time,
                    last_capture_time, last_api_call_time,
                    last_classification_result, cart, bag_detected,
                    bag_detection_confidence, all_classifications, writers,
                    results_file, background_tasks, ctx, flush_log, frame_log >>

\* the task runs for the first time: asyncio.sleep(RESULTS_FLUSH_DELAY)
FlushStart ==
    /\ Suspended /\ ~ Blocked
    /\ flush_task.st = "created"
    /\ flush_task' = [flush_task EXCEPT !.st = "sleeping", !.due = now + RESULTS_FLUSH_DELAY]
    /\ UNCHANGED << now, pc, gemini_available, previous_frame, previous_histogram, results_text, open_files, llm_response, classifier_response, cap, frame_count, current_time,
                    last_capture_time, last_api_call_time,
                    last_classification_result, cart, bag_detected,
                    bag_detection_confidence, all_classifications, writers,
                    results_file, background_tasks, ctx, flush_log, frame_log >>

\* the flush task goes on after its sleep: deduplicate_and_save_cart up to
\* its await
FlushRun ==
    /\ Suspended /\ ~ Blocked
    /\ flush_task.st = "sleeping"
    /\ StartSave(flush_task.id)
    /\ flush_task' = [flush_task EXCEPT !.st = "writing"]
    /\ flush_log' = [flush_log EXCEPT ![flush_task.id].runs = @ + 1,
                                      ![flush_task.id].began = now]
    /\ UNCHANGED << now, pc, gemini_available, previous_frame, previous_histogram, results_text, open_files, llm_response, classifier_response, cap, frame_count, current_time,
                    last_capture_time, last_api_call_time,
                    last_classification_result, bag_detected,
                    bag_detection_confidence, all_classifications,
                    results_file, background_tasks, ctx, frame_log >>

\* the sleep is over
FlushWake ==
    /\ now >= flush_task.due
    /\ FlushRun

\* The sleep is over, or it ends after the last tick of the clock: the last
\* tick stands for all later time.
FlushWakeLate ==
    /\ now >= flush_task.due \/ now + TimeStep > StartTime + MaxTicks
    /\ FlushRun

\* a thread of save_results_to_json has written the file, and the task that
\* awaits it goes on when the loop is free (a cancelled flush task has no
\* one waiting)
WriterEnd(w) ==
    /\ w \in writers
    /\ Suspended \/ pc = "done"
    /\ w.fid = 0 => pc = "final_save"
    /\ (w.fid = 0 \/ w.fid = flush_task.id) => ~ Blocked
    /\ writers' = writers \ { w }
    /\ results_file' = w.doc
    /\ pc' = IF w.fid = 0 THEN "done" ELSE pc
    /\ flush_task' = IF w.fid # 0 /\ flush_task.id = w.fid
                     THEN [flush_task EXCEPT !.st = "done"]
                     ELSE flush_task
    /\ UNCHANGED << now, gemini_available, previous_frame, previous_histogram, llm_response, classifier_response, cap, frame_count, current_time,
                    last_capture_time, last_api_call_time,
                    last_classification_result, cart, bag_detected,
                    bag_detection_confidence, all_classifications,
                    background_tasks, ctx, flush_log, frame_log >>

WriterDone(w) ==
    /\ WriterEnd(w)
    /\ UNCHANGED << results_text, open_files >>

\* The same thread, followed in its steps.  Line 894: open(..., 'w')
\* truncates the file and gives the thread a file object at position 0.
WriterOpen(w) ==
    /\ w \in writers
    /\ w.fid \notin DOMAIN open_files
    /\ results_text' = <<>>
    /\ open_files' = open_files @@ (w.fid :> 0)
    /\ UNCHANGED << now, pc, gemini_available, previous_frame, previous_histogram, llm_response, classifier_response, cap,
                    frame_count, current_time, last_capture_time, last_api_call_time,
                    last_classification_result, cart, bag_detected,
                    bag_detection_confidence, all_classifications, flush_task,
                    writers, results_file, background_tasks, ctx, flush_log,
                    frame_log >>

\* line 895: the next chunk of the document of the thread reaches the file
WriterWrite(w) ==
    /\ w \in writers
    /\ w.fid \in DOMAIN open_files
    /\ open_files[w.fid] < Len(json_dump(w.doc))
    /\ results_text' = WriteAt(results_text, open_files[w.fid],
                               json_dump(w.doc)[open_files[w.fid] + 1])
    /\ open_files' = [open_files EXCEPT ![w.fid] = @ + 1]
    /\ UNCHANGED << now, pc, gemini_available, previous_frame, previous_histogram, llm_response, classifier_response, cap,
                    frame_count, current_time, last_capture_time, last_api_call_time,
                    last_classification_result, cart, bag_detected,
                    bag_detection_confidence, all_classifications, flush_task,
                    writers, results_file, background_tasks, ctx, flush_log,
                    frame_log >>

\* the with block of line 894 closes the file and the thread ends
WriterClose(w) ==
    /\ w.fid \in DOMAIN open_files
    /\ open_files[w.fid] = Len(json_dump(w.doc))
    /\ WriterEnd(w)
    /\ open_files' = [fid \in DOMAIN open_files \ { w.fid } |-> open_files[fid]]
    /\ UNCHANGED results_text

\* the thread as it would end if the exception of the open or of the write
\* were not caught: it reaches the task that awaits the thread
WriterFail_raising(w) ==
    /\ w \in writers
    /\ Suspended \/ pc = "done"
    /\ w.fid = 0 => pc = "final_save"
    /\ (w.fid = 0 \/ w.fid = flush_task.id) => ~ Blocked
    /\ IF w.fid \in DOMAIN open_files
       THEN open_files[w.fid] < Len(json_dump(w.doc))
       ELSE TRUE
    /\ writers' = writers \ { w }
    /\ open_files' = [fid \in DOMAIN open_files \ { w.fid } |-> open_files[fid]]
    /\ pc' = IF w.fid = 0 \/ (w.fid = flush_task.id /\ pc = "await_flush")
             THEN "raised" ELSE pc
    /\ flush_task' = IF w.fid # 0 /\ flush_task.id = w.fid
                     THEN [flush_task EXCEPT !.st = "raised"]
                     ELSE flush_task
    /\ flush_log' = IF w.fid # 0 THEN [flush_log EXCEPT ![w.fid].failed = TRUE]
                                 ELSE flush_log
    /\ UNCHANGED << now, gemini_available, previous_frame, previous_histogram, llm_response, classifier_response, cap,
                    frame_count, current_time, last_capture_time, last_api_call_time,
                    last_classification_result, cart, bag_detected,
                    bag_detection_confidence, all_classifications, results_file,
                    results_text, background_tasks, ctx, frame_log >>

\* open of line 894 or a write of line 895 raises: lines 897-898 print the
\* error, save_results_to_json returns and the thread ends as after a
\* write.  The file keeps what it holds, the failure of a flush is
\* kept in flush_log.
WriterFail(w) ==
    /\ w \in writers
    /\ Suspended \/ pc = "done"
    /\ w.fid = 0 => pc = "final_save"
    /\ (w.fid = 0 \/ w.fid = flush_task.id) => ~ Blocked
    /\ IF w.fid \in DOMAIN open_files
       THEN open_files[w.fid] < Len(json_dump(w.doc))
       ELSE TRUE
    /\ writers' = writers \ { w }
    /\ open_files' = [fid \in DOMAIN open_files \ { w.fid } |-> open_files[fid]]
    /\ pc' = IF w.fid = 0 THEN "done" ELSE pc
    /\ flush_task' = IF w.fid # 0 /\ flush_task.id = w.fid
                     THEN [flush_task EXCEPT !.st = "done"]
                     ELSE flush_task
    /\ flush_log' = IF w.fid # 0 THEN [flush_log EXCEPT ![w.fid].failed = TRUE]
                                 ELSE flush_log
    /\ UNCHANGED << now, gemini_available, previous_frame, previous_histogram, llm_response, classifier_response, cap,
                    frame_count, current_time, last_capture_time, last_api_call_time,
                    last_classification_result, cart, bag_detected,
                    bag_detection_confidence, all_classifications, results_file,
                    results_text, background_tasks, ctx, frame_log >>

\* ------------------------------------------------------------------------
\* perform_deal_analysis
\* ------------------------------------------------------------------------

pringles_keywords == { <<"pringles">>, <<"pringle">> }

coke_keywords == { <<"coca">>, <<"coke">>, <<"cola">> }

KeywordHit(t, keywords) ==
    \E k \in keywords :
        \/ Contains(t.item_key[1], k) \/ Contains(t.item_key[2], k)
        \/ Contains(Lower(t.object_name), k)
        \/ Contains(Lower(t.brand), k)

\* A best deal message is a sequence of characters.  The characters the
\* messages are drawn from: the dollar sign, two digits, the point and a
\* letter.
Digits == { "0", "1", "2", "3", "4", "5", "6", "7", "8", "9" }

Messages == UNION { [1..n -> { "$", "1", "5", ".", "a" }] : n \in 0..MaxMessage }

\* the value of a run of digits
RECURSIVE DigitsValue(_)
DigitsValue(ds) ==
    LET c == ds[Len(ds)]
        value == CASE c = "0" -> 0 [] c = "1" -> 1 [] c = "2" -> 2 [] c = "3" -> 3
                   [] c = "4" -> 4 [] c = "5" -> 5 [] c = "6" -> 6 [] c = "7" -> 7
                   [] c = "8" -> 8 [] c = "9" -> 9
    IN  IF ds = <<>> THEN 0
        ELSE 10 * DigitsValue(SubSeq(ds, 1, Len(ds) - 1)) + value

\* the last index of the longest run of digits of text that starts at i
\* and has at most most digits (i - 1: no digit at i)
RECURSIVE DigitRun(_, _, _)
DigitRun(text, i, most) ==
    IF most > 0 /\ i <= Len(text) /\ text[i] \in Digits
    THEN DigitRun(text, i + 1, most - 1)
    ELSE i - 1

\* float(s) of a match: n / 10^e
Float(int, frac) == [n |-> DigitsValue(int \o frac), e |-> Len(frac)]

\* extract_best_deal_price with a search that takes the last '$' that a
\* digit follows
extract_best_deal_price_last(best_deal_message) ==
    LET text == best_deal_message
        starts == { i \in 1..(Len(text) - 1) : text[i] = "$" /\ text[i + 1] \in Digits }
    IN  IF text = <<>> \/ starts = {}
        THEN None
        ELSE LET start == CHOOSE i \in starts : \A j \in starts : i >= j
                 int_end == DigitRun(text, start + 1, Len(text))
                 has_frac == /\ int_end + 2 <= Len(text)
                             /\ text[int_end + 1] = "."
                             /\ text[int_end + 2] \in Digits
                 frac_end == IF has_frac THEN DigitRun(text, int_end + 2, 2)
                                         ELSE int_end + 1
             IN  << Float(SubSeq(text, start + 1, int_end),
                          SubSeq(text, int_end + 2, frac_end)) >>

\* extract_best_deal_price, lines 979-991: re.search finds the leftmost
\* '$' that a digit follows, [0-9]+ takes every digit after it, and the
\* optional group takes a point with one or two digits.  A price is a
\* sequence of one number, None the empty one.
extract_best_deal_price(best_deal_message) ==
    LET text == best_deal_message
        starts == { i \in 1..(Len(text) - 1) : text[i] = "$" /\ text[i + 1] \in Digits }
    IN  IF text = <<>> \/ starts = {}
        THEN None
        ELSE LET start == CHOOSE i \in starts : \A j \in starts : i <= j
                 int_end == DigitRun(text, start + 1, Len(text))
                 has_frac == /\ int_end + 2 <= Len(text)
                             /\ text[int_end + 1] = "."
                             /\ text[int_end + 2] \in Digits
                 frac_end == IF has_frac THEN DigitRun(text, int_end + 2, 2)
                                         ELSE int_end + 1
             IN  << Float(SubSeq(text, start + 1, int_end),
                          SubSeq(text, int_end + 2, frac_end)) >>

\* WriteBack without the test that item_key is in the cart: the write
\* creates the entry
WriteBack_unchecked(t, deal_analysis, price) ==
    /\ cart' = IF t.item_key \in CartKeys(cart)
               THEN [cart EXCEPT ![KeyIndex(cart, t.item_key)] =
                        [@ EXCEPT !.deal_analysis = deal_analysis,
                                  !.price = IF price # None THEN price ELSE @]]
               ELSE Append(cart, [ key |-> t.item_key, name |-> t.object_name,
                                   brand |-> t.brand, category |-> t.category,
                                   count |-> 1, confidence |-> 0, last_seen |-> 0,
                                   deal_analysis |-> deal_analysis, price |-> price,
                                   image_path |-> None ])
    /\ schedule_cart_flush

\* lines 410-418 and 451-456: the write into the cart entry of item_key
WriteBack(t, deal_analysis, price) ==
    IF t.item_key \in CartKeys(cart)
    THEN /\ cart' = [cart EXCEPT ![KeyIndex(cart, t.item_key)] =
                        [@ EXCEPT !.deal_analysis = deal_analysis,
                                  !.price = IF price # None THEN price ELSE @]]
         /\ schedule_cart_flush
    ELSE UNCHANGED << cart, flush_task, flush_log >>

\* the task runs from its first line to its end (the cached analyses) or
\* into scrape_google_shopping_deals; text-to-speech is off (enable_tts =
\* False, the default), so print_deal_analysis_summary does not suspend
TaskRun(t) ==
    /\ Suspended /\ ~ Blocked
    /\ t \in background_tasks
    /\ t.st = "created"
    /\ IF KeywordHit(t, pringles_keywords)
       THEN /\ WriteBack(t, <<"pringles_products">>, <<175>>)
            /\ background_tasks' = background_tasks \ { t }
       ELSE IF KeywordHit(t, coke_keywords)
       THEN /\ WriteBack(t, <<"coca_cola_products">>, <<135>>)
            /\ background_tasks' = background_tasks \ { t }
       ELSE /\ background_tasks' =
                  (background_tasks \ { t }) \cup { [t EXCEPT !.st = "searching"] }
            /\ UNCHANGED << cart, flush_task, flush_log >>
    /\ UNCHANGED << now, pc, gemini_available, previous_frame, previous_histogram, results_text, open_files, llm_response, classifier_response, cap, frame_count, current_time,
                    last_capture_time, last_api_call_time,
                    last_classification_result, bag_detected,
                    bag_detection_confidence, all_classifications, writers,
                    results_file, ctx, frame_log >>

\* scrape_google_shopping_deals returns (deals: it found some): the task
\* ends, or goes on to the await of analyze_deals_with_gemini
TaskSearched(t, deals) ==
    /\ t \in background_tasks
    /\ t.st = "searching"
    /\ background_tasks' =
          IF deals THEN (background_tasks \ { t }) \cup { [t EXCEPT !.st = "analyzing"] }
                   ELSE background_tasks \ { t }
    /\ UNCHANGED << now, pc, gemini_available, previous_frame, previous_histogram, results_text, open_files, llm_response, classifier_response, cap, frame_count, current_time,
                    last_capture_time, last_api_call_time,
                    last_classification_result, cart, bag_detected,
                    bag_detection_confidence, all_classifications, flush_task,
                    writers, results_file, ctx, flush_log, frame_log >>

\* analyze_deals_with_gemini returns deal_analysis (None, or a record whose
\* best deal message holds the price, or none)
TaskAnalyzed(t, deal_analysis, price) ==
    /\ Suspended /\ ~ Blocked
    /\ t \in background_tasks
    /\ t.st = "analyzing"
    /\ IF deal_analysis # None
       THEN WriteBack(t, deal_analysis, price)
       ELSE UNCHANGED << cart, flush_task, flush_log >>
    /\ background_tasks' = background_tasks \ { t }
    /\ UNCHANGED << now, pc, gemini_available, previous_frame, previous_histogram, results_text, open_files, llm_response, classifier_response, cap, frame_count, current_time,
                    last_capture_time, last_api_call_time,
                    last_classification_result, bag_detected,
                    bag_detection_confidence, all_classifications, writers,
                    results_file, ctx, frame_log >>

\* The same return, followed from the best deal message of the analysis:
\* lines 451-456, the record deal_analysis holds the message and the price
\* is extracted from it.
TaskAnalyzedMessage(t, best_deal_message) ==
    TaskAnalyzed(t, << best_deal_message >>, extract_best_deal_price(best_deal_message))

\* ------------------------------------------------------------------------
\* The clock
\* ------------------------------------------------------------------------
Tick(d) ==
    /\ pc \in { "frame", "idle" } \/ Suspended
    /\ now + d <= StartTime + MaxTicks
    /\ now' = now + d
    /\ UNCHANGED << pc, gemini_available, previous_frame, previous_histogram, results_text, open_files, llm_response, classifier_response, cap, frame_count, current_time,
                    last_capture_time, last_api_call_time,
                    last_classification_result, cart, bag_detected,
                    bag_detection_confidence, all_classifications, flush_task,
                    writers, results_file, background_tasks, ctx, flush_log,
                    frame_log >>

Next ==
    \/ \E opened \in BOOLEAN : Start(opened)
    \/ \E det \in { "none", "motion", "scene_change" }, wrote \in BOOLEAN : Frame(det, wrote)
    \/ \E res \in ClassifierOutputs : ClassifyReturn(res)
    \/ \E a \in BOOLEAN : LLMRunReturn(a)
    \/ \E a \in BOOLEAN : LLMCartReturn(a)
    \/ Exit
    \/ GatherDone
    \/ FlushAwaited
    \/ FlushStart
    \/ FlushWake
    \/ \E w \in writers : WriterDone(w)
    \/ \E t \in background_tasks : TaskRun(t)
    \/ \E t \in background_tasks, deals \in BOOLEAN : TaskSearched(t, deals)
    \/ \E t \in background_tasks :
          \E r \in { <<None, None>>, << <<"live">>, None >>, << <<"live">>, <<219>> >> } :
             TaskAnalyzed(t, r[1], r[2])
    \/ Tick(TimeStep)

Spec == Init /\ [][Next]_vars

\* The runs in which the clock steps by single ticks, between two frames
\* or while the timer of the flush task runs: the classifier answers with
\* one item or with nothing, the duplicate check by the external service
\* answers no.
NextTimed ==
    \/ Start(TRUE)
    \/ \E det \in { "none", "motion" }, wrote \in BOOLEAN : Frame(det, wrote)
    \/ \E res \in { Dict(CokeCan), NoResult } : ClassifyReturn(res)
    \/ LLMRunReturn(FALSE)
    \/ LLMCartReturn(FALSE)
    \/ Exit
    \/ GatherDone
    \/ FlushAwaited
    \/ FlushStart
    \/ FlushWake
    \/ \E w \in writers : WriterDone(w)
    \/ \E t \in background_tasks : TaskRun(t)
    \/ (pc = "frame" \/ (flush_task.st = "sleeping" /\ now < flush_task.due)) /\ Tick(1)

SpecTimed == Init /\ [][NextTimed]_vars

\* The runs in which the classification and update_cart's check are
\* followed from the responses of the external service to the cart, up to
\* the flush.
NextResponse ==
    \/ Start(TRUE)
    \/ \E det \in { "none", "motion" }, wrote \in BOOLEAN : Frame(det, wrote)
    \/ \E response \in ClassifierResponses : ClassifyResponse(response)
    \/ \E a \in BOOLEAN : LLMRunReturn(a)
    \/ \E response \in LLMResponses : LLMCartResponse(response)
    \/ Tick(TimeStep)

SpecResponse == Init /\ [][NextResponse]_vars

\* The runs in which the classifier answers with a list of records, with
\* an empty list or with one record.
NextList ==
    \/ Start(TRUE)
    \/ \E det \in { "none", "motion" }, wrote \in BOOLEAN : Frame(det, wrote)
    \/ \E res \in { List(<< CokeCan, SnackPack >>), List(<<>>), Dict(SnackPack),
                     Dict(CokeCan),
                     Dict(Classification(<<"Coca-Cola", "Bottle">>, <<"Coca-Cola">>,
                                         <<"beverage">>, 97)) } :
          ClassifyReturn(res)
    \/ \E a \in BOOLEAN : LLMRunReturn(a)
    \/ \E a \in BOOLEAN : LLMCartReturn(a)
    \/ Exit
    \/ GatherDone
    \/ FlushAwaited
    \/ FlushStart
    \/ FlushWake
    \/ \E w \in writers : WriterDone(w)
    \/ \E t \in background_tasks : TaskRun(t)
    \/ \E t \in background_tasks, deals \in BOOLEAN : TaskSearched(t, deals)
    \/ \E t \in background_tasks : TaskAnalyzed(t, None, None)
    \/ Tick(TimeStep)

SpecList == Init /\ [][NextList]_vars

\* A pass of the while loop in which process_frame finds nothing in the
\* center region, past the frames that are logged: cap.read() and lines
\* 1512-1517, then lines 1616-1658 with no key pressed.  No await of the
\* pass suspends the task of run (process_frame awaits nothing).  The frame
\* counter stands still past MaxFrames.
IdleRead ==
    /\ pc = "frame"
    /\ frame_count >= MaxFrames
    /\ pc' = "idle"
    /\ current_time' = now
    /\ UNCHANGED << now, gemini_available, previous_frame, previous_histogram, results_text, open_files, llm_response, classifier_response, cap,
                    frame_count, last_capture_time, last_api_call_time,
                    last_classification_result, cart, bag_detected,
                    bag_detection_confidence, all_classifications, flush_task,
                    writers, results_file, background_tasks, ctx, flush_log,
                    frame_log >>

IdleDone ==
    /\ pc = "idle"
    /\ pc' = "frame"
    /\ UNCHANGED << now, gemini_available, previous_frame, previous_histogram, results_text, open_files, llm_response, classifier_response, cap,
                    frame_count, current_time, last_capture_time, last_api_call_time,
                    last_classification_result, cart, bag_detected,
                    bag_detection_confidence, all_classifications, flush_task,
                    writers, results_file, background_tasks, ctx, flush_log,
                    frame_log >>

\* The runs in which the loop is never left: after the frames that are
\* logged the source keeps delivering frames with nothing in the center
\* region.
NextRunning ==
    \/ Start(TRUE)
    \/ \E det \in { "none", "motion" }, wrote \in BOOLEAN : Frame(det, wrote)
    \/ \E res \in { Dict(CokeCan), NoResult } : ClassifyReturn(res)
    \/ LLMRunReturn(FALSE)
    \/ LLMCartReturn(FALSE)
    \/ IdleRead
    \/ IdleDone
    \/ FlushStart
    \/ FlushWakeLate
    \/ \E w \in writers : WriterDone(w)
    \/ \E t \in background_tasks : TaskRun(t)
    \/ Tick(TimeStep)

\* the steps of the task of run, of the flush task, and of the writer
\* threads and the other tasks
RunSteps ==
    \/ \E det \in { "none", "motion" }, wrote \in BOOLEAN : Frame(det, wrote)
    \/ \E res \in { Dict(CokeCan), NoResult } : ClassifyReturn(res)
    \/ LLMRunReturn(FALSE)
    \/ LLMCartReturn(FALSE)
    \/ IdleRead
    \/ IdleDone

FlushSteps == FlushStart \/ FlushWakeLate

OtherSteps ==
    \/ \E w \in writers : WriterDone(w)
    \/ \E t \in background_tasks : TaskRun(t)

\* The loop of asyncio runs every task that is ready when the running task
\* suspends, every thread ends, the clock goes on and the source delivers
\* frames; what the frames show is left open.
FairRunning ==
    /\ WF_vars(RunSteps)
    /\ WF_vars(FlushSteps)
    /\ WF_vars(OtherSteps)
    /\ WF_vars(Tick(TimeStep))

SpecRunning == Init /\ [][NextRunning]_vars /\ FairRunning

\* The runs in which the threads of save_results_to_json are followed in
\* their steps, from the opening of the file to its closing.
NextFile ==
    \/ Start(TRUE)
    \/ \E det \in { "none", "motion" }, wrote \in BOOLEAN : Frame(det, wrote)
    \/ \E res \in { Dict(CokeCan), NoResult } : ClassifyReturn(res)
    \/ LLMRunReturn(FALSE)
    \/ LLMCartReturn(FALSE)
    \/ Exit
    \/ GatherDone
    \/ FlushAwaited
    \/ FlushStart
    \/ FlushWake
    \/ \E w \in writers : WriterOpen(w)
    \/ \E w \in writers : WriterWrite(w)
    \/ \E w \in writers : WriterClose(w)
    \/ \E w \in writers : WriterFail(w)
    \/ \E t \in background_tasks : TaskRun(t)
    \/ Tick(TimeStep)

SpecFile == Init /\ [][NextFile]_vars

\* The runs in which the analysis of the deals of one cart entry returns
\* with any best deal message: the entry of 'Snack Pack' is in the cart,
\* its task awaits analyze_deals_with_gemini, run has left the loop and
\* awaits the task (line 1664).
InitPrice ==
    /\ now = StartTime
    /\ pc = "gather"
    /\ gemini_available = TRUE
    /\ cap = "open"
    /\ frame_count = 1
    /\ current_time = StartTime
    /\ last_capture_time = StartTime
    /\ last_api_call_time = StartTime
    /\ last_classification_result = Dict(SnackPack)
    /\ cart = << NewCartItem(SnackPack, None, StartTime) >>
    /\ bag_detected = FALSE
    /\ bag_detection_confidence = 0
    /\ all_classifications = <<>>
    /\ flush_task = NewFlushTask(<<>>)
    /\ writers = {}
    /\ results_file = Doc(<<>>, <<>>)
    /\ background_tasks = { [NewTask(SnackPack) EXCEPT !.st = "analyzing"] }
    /\ ctx = NoCtx
    /\ flush_log = << [at |-> StartTime, runs |-> 0, began |-> 0, failed |-> FALSE] >>
    /\ frame_log = <<>>
    /\ llm_response = <<>>
    /\ classifier_response = <<>>
    /\ results_text = json_dump(Doc(<<>>, <<>>))
    /\ open_files = << >>
    /\ previous_frame = None
    /\ previous_histogram = None

NextPrice ==
    \/ \E t \in background_tasks, best_deal_message \in Messages :
          TaskAnalyzedMessage(t, best_deal_message)
    \/ FlushStart

SpecPrice == InitPrice /\ [][NextPrice]_vars

\* The runs in which the frames are followed by their histograms; the
\* classifier finds nothing to report.
NextScene ==
    \/ Start(TRUE)
    \/ \E frame \in 0..3, motion_detected, wrote \in BOOLEAN :
          ProcessFrame(frame, motion_detected, wrote)
    \/ ClassifyReturn(NoResult)
    \/ Tick(TimeStep)

SpecScene == Init /\ [][NextScene]_vars

\* The runs in which the reconciliation pass is applied to any cart, twice
\* in a row: run leaves its loop with a flush scheduled, the flush task
\* reconciles and saves (lines 909, 914-917), the finally block reconciles
\* and saves again (line 1680).
InitReconcile ==
    /\ now = StartTime
    /\ pc = "frame"
    /\ gemini_available = TRUE
    /\ cap = "open"
    /\ frame_count = 0
    /\ current_time = 0
    /\ last_capture_time = 0
    /\ last_api_call_time = 0
    /\ last_classification_result = NoResult
    /\ cart \in Carts
    /\ bag_detected = FALSE
    /\ bag_detection_confidence = 0
    /\ all_classifications = <<>>
    /\ flush_task = NewFlushTask(<<>>)
    /\ writers = {}
    /\ results_file = Doc(<<>>, <<>>)
    /\ background_tasks = {}
    /\ ctx = NoCtx
    /\ flush_log = << [at |-> StartTime, runs |-> 0, began |-> 0, failed |-> FALSE] >>
    /\ frame_log = <<>>
    /\ llm_response = <<>>
    /\ classifier_response = <<>>
    /\ results_text = json_dump(Doc(<<>>, <<>>))
    /\ open_files = << >>
    /\ previous_frame = None
    /\ previous_histogram = None

NextReconcile ==
    \/ Exit
    \/ FlushAwaited
    \/ FlushStart
    \/ FlushWake
    \/ \E w \in writers : WriterDone(w)
    \/ Tick(RESULTS_FLUSH_DELAY)

SpecReconcile == InitReconcile /\ [][NextReconcile]_vars

\* The classifications of the end-to-end scenario, in their order.
CokeTwelve == Classification(<<"Coke", "12oz">>, <<"Coca-Cola">>, <<"beverage">>, 92)

Scenario == << CokeCan, CokeTwelve, PringlesOriginal >>

\* update_cart is called with the next classification of the scenario and
\* the image of its frame (line 1603), and runs up to its await or its end.
Feed ==
    /\ pc = "frame"
    /\ Len(frame_log) < Len(Scenario)
    /\ frame_count' = frame_count + 1
    /\ current_time' = now
    /\ LET obj == Scenario[Len(frame_log) + 1]
           image_path == <<now \div 2, "motion">>
       IN  update_cart([NoCtx EXCEPT !.image_path = image_path, !.objs = <<obj>>],
                       Append(frame_log,
                              FrameRecord("motion", FALSE, image_path, "call", Dict(obj))))
    /\ UNCHANGED << now, gemini_available, previous_frame, previous_histogram, results_text, open_files, llm_response, classifier_response, cap,
                    last_capture_time, last_api_call_time, last_classification_result,
                    all_classifications, writers, results_file >>

\* The runs of the scenario: the three classifications go through
\* update_cart, the external check answering either way, then run leaves
\* its loop and the flush and the final save reconcile and write the cart.
NextScenario ==
    \/ Start(TRUE)
    \/ Feed
    \/ \E a \in BOOLEAN : LLMCartReturn(a)
    \/ Exit
    \/ FlushAwaited
    \/ FlushStart
    \/ FlushWake
    \/ \E w \in writers : WriterDone(w)
    \/ Tick(RESULTS_FLUSH_DELAY)

SpecScenario == Init /\ [][NextScenario]_vars

\* ------------------------------------------------------------------------
\* Properties
\* ------------------------------------------------------------------------

Frames == 1..Len(frame_log)

FlushCalls == 1..Len(flush_log)

\* update_cart is entered in this step, for the frame in hand
UpdateEntered ==
    /\ frame_log' # <<>>
    /\ LastFrame(frame_log').started
    /\ ~ (Len(frame_log) = Len(frame_log') /\ LastFrame(frame_log).started)

EnteredObject == LastFrame(frame_log').result.objs[1]

\* the preconditions of the duplicate filter
PassesPreconditions(obj) ==
    /\ obj.confidence >= MIN_CONFIDENCE_THRESHOLD
    /\ ~ is_bag(obj)
    /\ ~ IsSentinel(obj)
    /\ is_grocery_item(obj)

\* the entries of c to which obj has name and brand similarity above 0.8
SimilarEntries(c, obj) ==
    { i \in 1..Len(c) :
        /\ FracGT(calculate_name_similarity(Lower(obj.object_name), Lower(c[i].name)),
                  Frac(8, 10))
        /\ FracGT(calculate_name_similarity(Lower(normalize_brand_name(obj.brand)),
                                            Lower(c[i].brand)),
                  Frac(8, 10)) }

KeyCount(c, k) == IF k \in CartKeys(c) THEN c[KeyIndex(c, k)].count ELSE 0

C2_ConfidenceGate ==
    [][ ( /\ UpdateEntered
          /\ EnteredObject.confidence < MIN_CONFIDENCE_THRESHOLD )
        => /\ UNCHANGED << cart, bag_detected, bag_detection_confidence,
                           flush_task, flush_log, background_tasks >>
           /\ LastFrame(frame_log').finished
           /\ ~ LastFrame(frame_log').modified ]_vars

\* update_cart has handled a classification of low confidence
C2_Witness ==
    \E f \in Frames :
        /\ frame_log[f].started /\ frame_log[f].finished
        /\ frame_log[f].result.kind = "dict"
        /\ frame_log[f].result.objs[1].confidence < MIN_CONFIDENCE_THRESHOLD

\* C3: a flush runs deduplicate_and_save_cart at most once and no earlier
\* than RESULTS_FLUSH_DELAY after the call of schedule_cart_flush that
\* created it; a call followed by another less than RESULTS_FLUSH_DELAY
\* later never runs it; and when run() has returned, the flush of the last
\* call has run it once and its write is done.  Hence N calls less than the
\* delay apart with none after them give one execution, of the last call.
C3_DebounceCoalescing ==
    /\ \A i \in FlushCalls : flush_log[i].runs <= 1
    /\ \A i \in FlushCalls :
          flush_log[i].runs = 1 => flush_log[i].began >= flush_log[i].at + RESULTS_FLUSH_DELAY
    /\ \A i \in FlushCalls :
          ( /\ i < Len(flush_log)
            /\ flush_log[i + 1].at - flush_log[i].at < RESULTS_FLUSH_DELAY )
          => flush_log[i].runs = 0
    /\ (pc = "done" /\ flush_log # <<>>)
          => /\ flush_log[Len(flush_log)].runs = 1
             /\ flush_task.id = Len(flush_log)
             /\ flush_task.st = "done"

\* two calls less than the delay apart, the first never ran, the second
\* ran once
C3_Witness ==
    /\ Len(flush_log) = 2
    /\ flush_log[2].at - flush_log[1].at < RESULTS_FLUSH_DELAY
    /\ flush_log[2].at > flush_log[1].at
    /\ flush_log[1].runs = 0
    /\ flush_log[2].runs = 1
    /\ flush_task.st = "done"

C6_ReleaseAfterTasksAndFlush ==
    /\ cap = "released" => (background_tasks = {} /\ ~ FlushPending)
    /\ \A w \in writers : w.fid = 0 => cap = "released"
    /\ (pc = "done" /\ cap = "released") => \A w \in writers : w.fid # 0

\* C6, as stated: when the camera is released, the enrichment tasks, the
\* flush task and the last write of the results file have completed: the
\* thread of the last save does not run after the release.
C6_LastWriteBeforeRelease ==
    cap = "released"
    => /\ background_tasks = {}
       /\ ~ FlushPending
       /\ \A w \in writers : w.fid # 0

\* run() has returned after a shutdown in which a flush was scheduled, ran
\* and was awaited, with the cart not empty
C6_Witness ==
    /\ pc = "done" /\ cap = "released"
    /\ flush_log # <<>>
    /\ flush_task.st = "done"
    /\ cart # <<>>
    /\ results_file.cart = cart

\* C7: a frame with a trigger saves an image exactly when no image was
\* saved less than CAPTURE_COOLDOWN before it and the write succeeds (a
\* failed write starts no cooldown window); so two saved images are at
\* least CAPTURE_COOLDOWN apart, a trigger half a second after a saved
\* image saves nothing, and a trigger two and a half seconds after it saves
\* a second image.
C7_CaptureCooldown ==
    /\ \A i, j \in Frames :
          (i < j /\ frame_log[i].saved /\ frame_log[j].saved)
          => frame_log[j].t - frame_log[i].t >= CAPTURE_COOLDOWN
    /\ \A j \in Frames :
          frame_log[j].saved
          <=> /\ frame_log[j].det # "none"
              /\ ~ frame_log[j].failed
              /\ \A i \in 1..(j - 1) :
                    frame_log[i].saved
                    => frame_log[j].t - frame_log[i].t >= CAPTURE_COOLDOWN
    /\ \A j \in Frames :
          frame_log[j].failed
          <=> /\ frame_log[j].det # "none"
              /\ ~ frame_log[j].saved
              /\ \A i \in 1..(j - 1) :
                    frame_log[i].saved
                    => frame_log[j].t - frame_log[i].t >= CAPTURE_COOLDOWN
    /\ \A i, j \in Frames :
          ( /\ i < j /\ frame_log[i].saved /\ frame_log[j].det # "none"
            /\ frame_log[j].t - frame_log[i].t = 1 )
          => ~ frame_log[j].saved
    /\ \A i, j \in Frames :
          ( /\ j = i + 1 /\ frame_log[i].saved /\ frame_log[j].det # "none"
            /\ ~ frame_log[j].failed
            /\ frame_log[j].t - frame_log[i].t = 5 )
          => frame_log[j].saved
    /\ last_capture_time # 0
          => \E i \in Frames : frame_log[i].saved /\ frame_log[i].t = last_capture_time

\* a write failed, and a trigger half a second later saved an image
C7_Witness ==
    /\ Len(frame_log) = 2
    /\ frame_log[1].failed
    /\ frame_log[2].saved
    /\ frame_log[2].t - frame_log[1].t = 1

\* the frames of the genuine classifier calls
Calls == { f \in Frames : frame_log[f].dispatch = "call" }

\* the last genuine call before frame j, or 0
LastCallBefore(j) ==
    LET before == { i \in Calls : i < j }
    IN  IF before = {} THEN 0 ELSE CHOOSE i \in before : \A k \in before : k <= i

\* C8: a capture whose frame time is less than CLASSIFICATION_COOLDOWN
\* after the frame time of the last classifier call is not classified: the
\* result of that call is reused unchanged; every other capture calls the
\* classifier.  So two genuine calls have frame times at least
\* CLASSIFICATION_COOLDOWN apart and no reuse precedes the first call.
C8_ClassificationCooldown ==
    /\ \A j \in Frames :
          frame_log[j].dispatch # "none"
          => LET i == LastCallBefore(j)
             IN  IF i # 0 /\ frame_log[j].t - frame_log[i].t < CLASSIFICATION_COOLDOWN
                 THEN /\ frame_log[j].dispatch = "reuse"
                      /\ frame_log[j].result = frame_log[i].result
                 ELSE frame_log[j].dispatch = "call"
    /\ \A i, j \in Calls :
          i < j => frame_log[j].t - frame_log[i].t >= CLASSIFICATION_COOLDOWN
    /\ \A j \in Frames :
          frame_log[j].dispatch = "reuse" => LastCallBefore(j) # 0
    /\ \A k \in 1..Len(all_classifications) :
          all_classifications[k].skipped
          => /\ k > 1
             /\ all_classifications[k].result = all_classifications[k - 1].result

\* a genuine call that returned an item, and a capture within the cooldown
\* that reused it
C8_Witness ==
    \E i, j \in Frames :
        /\ i < j
        /\ frame_log[i].dispatch = "call"
        /\ frame_log[i].result.kind = "dict"
        /\ frame_log[j].dispatch = "reuse"
        /\ frame_log[j].result = frame_log[i].result
        /\ frame_log[j].t - frame_log[i].t >= CAPTURE_COOLDOWN
        /\ frame_log[j].t - frame_log[i].t < CLASSIFICATION_COOLDOWN

\* a frame is read in this step and its capture is handled inside the
\* classification cooldown, with a stored last result to reuse
ReuseRead ==
    /\ Len(frame_log') = Len(frame_log) + 1
    /\ LastFrame(frame_log').dispatch = "reuse"
    /\ LastFrame(frame_log').result.kind = "dict"

\* update_cart, called for a reused result, comes back from its await of
\* the external duplicate check and ends
ReuseResumed ==
    /\ pc = "llm_cart"
    /\ pc' = "frame"
    /\ LastFrame(frame_log).dispatch = "reuse"

Dispatched ==
    { f \in Frames :
        /\ frame_log[f].dispatch # "none"
        /\ ~ (f = Len(frame_log) /\ pc = "classify") }

Rank(f) == Cardinality({ g \in Dispatched : g <= f })

\* C10: a frame is dispatched exactly when its capture succeeded and the
\* classifier is available; the dispatched frames, in order, are the
\* records of all_classifications (a genuine call appends its record when
\* the classifier has answered), each with timestamp, frame number,
\* detection source, image path, success flag, result and skipped flag,
\* skipped being true exactly for the reused dispatches; the other frames
\* append nothing, and no step removes or changes a record.
C10_AuditLog ==
    /\ [] ( /\ \A f \in Frames :
                  frame_log[f].dispatch # "none"
                  <=> (frame_log[f].saved /\ gemini_available)
            /\ Len(all_classifications) = Cardinality(Dispatched)
            /\ \A f \in Dispatched :
                  LET r == all_classifications[Rank(f)]
                  IN  /\ DOMAIN r = { "timestamp", "frame_number", "detection_source",
                                      "image_path", "success", "result", "skipped" }
                      /\ r.timestamp >= frame_log[f].t
                      /\ r.frame_number = frame_log[f].frame
                      /\ r.detection_source = frame_log[f].det
                      /\ r.image_path # None
                      /\ r.result = frame_log[f].result
                      /\ r.skipped <=> frame_log[f].dispatch = "reuse"
                      /\ r.success <=> (r.skipped \/ r.result.kind # "none") )
    /\ [][ /\ Len(all_classifications') >= Len(all_classifications)
           /\ Len(all_classifications') <= Len(all_classifications) + 1
           /\ SubSeq(all_classifications', 1, Len(all_classifications))
                 = all_classifications ]_vars

\* a genuine call and a reuse have been recorded, and a frame without
\* dispatch in between or around them left no record
C10_Witness ==
    /\ Len(all_classifications) = 2
    /\ ~ all_classifications[1].skipped
    /\ all_classifications[2].skipped
    /\ pc = "frame"

\* C11: a task of perform_deal_analysis is created for an item key only in
\* a step in which update_cart inserts that key into the cart as a new
\* entry; no task is created for an item that update_cart dropped.
C11_TaskOnlyForNewEntry ==
    [][ \A t \in background_tasks' \ background_tasks :
            t.st = "created"
            => /\ t.item_key \notin CartKeys(cart)
               /\ t.item_key \in CartKeys(cart') ]_vars

\* run resumes from the await at which it is suspended
MainResume ==
    \/ \E res \in ClassifierOutputs : ClassifyReturn(res)
    \/ \E a \in BOOLEAN : LLMRunReturn(a)
    \/ \E a \in BOOLEAN : LLMCartReturn(a)

\* C12: while a task of perform_deal_analysis waits for its deal search or
\* its deal analysis, the frame loop is not blocked: when run is suspended
\* in the handling of a frame, it can take up the answer it waits for and
\* go on with the frames.
C12_EnrichmentDoesNotBlock ==
    ( /\ \E t \in background_tasks : t.st \in { "searching", "analyzing" }
      /\ pc \in { "classify", "llm_run", "llm_cart" } )
    => ENABLED MainResume

\* C13: a step of a perform_deal_analysis task (the task leaves its place
\* in background_tasks) inserts and removes no cart key and changes at most
\* the deal_analysis and price fields of the entry of its own item_key;
\* when that key is not in the cart (any more) it writes nothing and
\* schedules no flush.
C13_EnrichmentFrame ==
    [][ \A t \in background_tasks \ background_tasks' :
            /\ Len(cart') = Len(cart)
            /\ \A i \in 1..Len(cart) :
                  \/ cart'[i] = cart[i]
                  \/ /\ cart[i].key = t.item_key
                     /\ cart'[i] = [cart[i] EXCEPT !.deal_analysis = cart'[i].deal_analysis,
                                                   !.price = cart'[i].price]
            /\ t.item_key \notin CartKeys(cart)
                  => (cart' = cart /\ flush_log' = flush_log) ]_vars

\* a task has written its analysis and price into the entry of its key,
\* in a run in which update_cart also dropped an item of a genuine call;
\* all tasks have ended
C13_Witness ==
    /\ Len(cart) = 1
    /\ cart[1].deal_analysis # None
    /\ cart[1].price # None
    /\ cart[1].count = 1
    /\ background_tasks = {}
    /\ \E f \in Frames : frame_log[f].finished /\ ~ frame_log[f].modified
                         /\ frame_log[f].dispatch = "call"
                         /\ frame_log[f].result.kind = "dict"
                         /\ PassesPreconditions(frame_log[f].result.objs[1])

\* ------------------------------------------------------------------------
\* C14
\* ------------------------------------------------------------------------

\* the response parses to a JSON object whose is_duplicate is true
IsDuplicateTrue(response) ==
    /\ ~ response.raises
    /\ ParseResponse(response.text).t = "dict"
    /\ DictGet(ParseResponse(response.text), "is_duplicate", PyFalse) = PyTrue

\* C14: check_cart_duplicate_with_llm fails open.  In the step in which
\* the check of update_cart returns: when the service raised or its
\* response does not parse to a JSON object with a true is_duplicate, the
\* check returns a false value (False, or a value the test of line 323
\* takes for False) and the add of the item is not suppressed: the item's
\* key is in the cart and update_cart has modified the cart.
C14_FailOpen ==
    [][ ( /\ pc = "llm_cart"
          /\ pc' # "llm_cart"
          /\ llm_response' # <<>>
          /\ ~ IsDuplicateTrue(llm_response'[1]) )
        => /\ ~ Truthy(check_cart_duplicate_with_llm(gemini_available, llm_response'[1]))
           /\ ItemKey(ctx.objs[ctx.idx].object_name,
                      normalize_brand_name(ctx.objs[ctx.idx].brand)) \in CartKeys(cart')
           /\ frame_log'[Len(frame_log')].modified ]_vars

\* ------------------------------------------------------------------------
\* C15
\* ------------------------------------------------------------------------

\* the response has a text that json.loads rejects
Unparseable(response) ==
    /\ ~ response.raises
    /\ response.text # <<>>
    /\ json_loads(JsonText(response.text)).t = "error"

C16_MergeIdempotent ==
    [][ /\ ( /\ pc = "await_flush"
             /\ pc' = "final_save"
             /\ flush_log[1].runs = 1 ) => cart' = cart
        /\ deduplicate_cart_entries(deduplicate_cart_entries(cart))
              = deduplicate_cart_entries(cart) ]_vars

\* both passes have run on a cart of three entries, two of which the first
\* pass merged into the first one
C16_Witness ==
    /\ pc = "done"
    /\ flush_log[1].runs = 1
    /\ Len(cart) = 1
    /\ cart[1].name = <<"Pringles">>
    /\ cart[1].count = 3
    /\ cart[1].price = <<150>>
    /\ results_file.cart = cart

\* ------------------------------------------------------------------------
\* C17
\* ------------------------------------------------------------------------

\* the three classifications have gone through update_cart, the flush
\* has run and run has ended
ScenarioDone ==
    /\ Len(frame_log) = Len(Scenario)
    /\ pc = "done"
    /\ flush_log # <<>>
    /\ \E i \in 1..Len(flush_log) : flush_log[i].runs > 0

EntryOf(obj) == ItemKey(obj.object_name, normalize_brand_name(obj.brand))

C18_CartItemInvariant ==
    [][ /\ \A i \in 1..Len(cart) : cart[i].count >= 1
        /\ \A j \in 1..Len(cart') : cart'[j].count >= 1
        /\ \A i \in 1..Len(cart), j \in 1..Len(cart') :
              cart[i].key = cart'[j].key
              => /\ cart'[j].count >= cart[i].count
                 /\ cart'[j].last_seen >= cart[i].last_seen ]_vars

\* an entry was updated by a later call of update_cart (count 2, last_seen
\* after the first frame), written back to by its task and reconciled by a
\* flush that wrote it
C18_Witness ==
    \E i \in 1..Len(cart) :
        /\ cart[i].count = 2
        /\ cart[i].last_seen > frame_log[1].t
        /\ cart[i].deal_analysis # None
        /\ results_file.cart = cart

\* ------------------------------------------------------------------------
\* C19
\* ------------------------------------------------------------------------

\* C19: every change of the cart other than the reconciliation of a flush
\* schedules a flush, and while run stays in its loop every flush that is
\* scheduled leads to a finished write of the results file whose
\* shopping_cart is the cart.
C19_EventualPersistence ==
    /\ [][ (cart' # cart /\ cart' # deduplicate_cart_entries(cart))
           => Len(flush_log') = Len(flush_log) + 1 ]_vars
    /\ FlushPending ~> (flush_task.st = "done" /\ results_file.cart = cart)

\* ------------------------------------------------------------------------
\* C20
\* ------------------------------------------------------------------------

\* C20: at every moment the results file holds a whole document: whoever
\* reads it, while threads of save_results_to_json write it, gets a
\* document and never an empty, truncated or interleaved file.
C20_AtomicRewrite == load_results(results_text) # HTTP500

\* ------------------------------------------------------------------------
\* C21
\* ------------------------------------------------------------------------

\* the thread w ends in this step before it has written its document
WriteFailed(w) ==
    /\ w \in writers
    /\ w \notin writers'
    /\ IF w.fid \in DOMAIN open_files
       THEN open_files[w.fid] < Len(json_dump(w.doc))
       ELSE TRUE

\* C21: when the open or a write of a thread of save_results_to_json fails,
\* the thread ends without raising (the task that awaits it goes on as
\* after a write: the flush task is done, run reaches its end or stays
\* where it is in the loop), the cart and the audit log are as before,
\* and every flush that starts serializes the cart of that moment and
\* leaves it in the file when it ends without failing.
C21_WriteFailureContained ==
    [][ /\ \A w \in writers :
              WriteFailed(w)
              => /\ cart' = cart
                 /\ all_classifications' = all_classifications
                 /\ pc' = (IF w.fid = 0 THEN "done" ELSE pc)
                 /\ (w.fid # 0 /\ w.fid = flush_task.id) => flush_task'.st = "done"
                 /\ w.fid # flush_task.id => flush_task' = flush_task
        /\ \A w \in writers' \ writers : w.doc = Doc(cart', all_classifications')
        /\ \A w \in writers \ writers' :
              ~ WriteFailed(w) => results_file' = w.doc ]_vars

\* the write of a flush failed, update_cart's next change was flushed and
\* written, and the file holds the cart
C21_Witness ==
    /\ \E i, j \in 1..Len(flush_log) :
           /\ i < j
           /\ flush_log[i].failed
           /\ ~ flush_log[j].failed
           /\ flush_log[j].runs = 1
           /\ flush_task.id = j
    /\ flush_task.st = "done"
    /\ writers = {}
    /\ cart # <<>>
    /\ IsDocument(results_text)
    /\ load_results(results_text).cart = cart

\* ------------------------------------------------------------------------
\* C22
\* ------------------------------------------------------------------------

\* the first '$' of the message that a digit follows (0: there is none)
FirstDollar(text) ==
    LET starts == { i \in 1..(Len(text) - 1) : text[i] = "$" /\ text[i + 1] \in Digits }
    IN  IF starts = {} THEN 0 ELSE CHOOSE i \in starts : \A j \in starts : i <= j

\* the number that follows the '$' at start: its digits and, after a point,
\* the digits of its fraction, decimals of them at most
NumberAfter(text, start, decimals) ==
    LET int_end == DigitRun(text, start + 1, Len(text))
        has_frac == /\ int_end + 2 <= Len(text)
                    /\ text[int_end + 1] = "."
                    /\ text[int_end + 2] \in Digits
        frac_end == IF has_frac THEN DigitRun(text, int_end + 2, decimals)
                                ELSE int_end + 1
    IN  Float(SubSeq(text, start + 1, int_end), SubSeq(text, int_end + 2, frac_end))

RECURSIVE Pow10(_)
Pow10(e) == IF e = 0 THEN 1 ELSE 10 * Pow10(e - 1)

FloatEq(x, y) == x.n * Pow10(y.e) = y.n * Pow10(x.e)

\* C22: the price written back with an analysis is the number that follows
\* the first '$' of the best deal message that digits follow, and no price
\* is written when the message is empty or has no such '$'.
C22_PriceExtraction ==
    \A i \in 1..Len(cart) :
        cart[i].deal_analysis # None
        => LET text == cart[i].deal_analysis[1]
           IN  IF FirstDollar(text) = 0
               THEN cart[i].price = None
               ELSE /\ cart[i].price # None
                    /\ FloatEq(cart[i].price[1],
                               NumberAfter(text, FirstDollar(text), Len(text)))

\* C22, amended: the price written back with an analysis is the number
\* that follows the first '$' of the best deal message that a digit
\* follows, read with at most two digits after its point, and no price is
\* written when the message is empty or has no such '$'.
C22_PriceExtractionTwoDecimals ==
    \A i \in 1..Len(cart) :
        cart[i].deal_analysis # None
        => LET text == cart[i].deal_analysis[1]
           IN  IF FirstDollar(text) = 0
               THEN cart[i].price = None
               ELSE /\ cart[i].price # None
                    /\ FloatEq(cart[i].price[1], NumberAfter(text, FirstDollar(text), 2))

\* a price with two decimals was extracted from a message that does not
\* start with its '$'
C22_Witness ==
    \E i \in 1..Len(cart) :
        /\ cart[i].deal_analysis # None
        /\ FirstDollar(cart[i].deal_analysis[1]) > 1
        /\ cart[i].price # None
        /\ cart[i].price[1].e = 2

\* ------------------------------------------------------------------------
\* C23
\* ------------------------------------------------------------------------

\* C23: after each call of process_frame the histogram that
\* detect_scene_change has stored is the histogram of the frame just
\* processed.
C23_SceneStateAdvances ==
    previous_frame # None => previous_histogram = previous_frame

\* ------------------------------------------------------------------------
\* C24
\* ------------------------------------------------------------------------

\* C24: while the frame in hand awaits the duplicate check of the external
\* service (line 1592 of run, after which run makes the deterministic
\* check, or line 322 of update_cart), its item has passed every
\* precondition and is not bag-like; a frame whose item fails a
\* precondition or is bag-like has not modified the cart, and has set
\* bag_detected when the item is bag-like with sufficient confidence.
C24_PreconditionFilter ==
    /\ pc = "llm_run" => PassesPreconditions(ctx.objs[1])
    /\ pc = "llm_cart" => PassesPreconditions(ctx.objs[ctx.idx])
    /\ \A f \in Frames :
          ( /\ frame_log[f].finished
            /\ frame_log[f].result.kind = "dict"
            /\ ~ PassesPreconditions(frame_log[f].result.objs[1]) )
          => /\ ~ frame_log[f].modified
             /\ ( /\ is_bag(frame_log[f].result.objs[1])
                  /\ frame_log[f].result.objs[1].confidence >= MIN_CONFIDENCE_THRESHOLD )
                => bag_detected

\* ------------------------------------------------------------------------
\* C25
\* ------------------------------------------------------------------------

\* C25: a frame for which the classifier returned a list of records is
\* handed to update_cart (which applies the elements one by one), at once
\* or after the duplicate check of run, and run stays in its loop: it is
\* not found in its finally block with the list never applied.
C25_MultiObjectResults ==
    \A f \in Frames :
        ( /\ frame_log[f].result.kind = "list"
          /\ frame_log[f].result.objs # <<>> )
        => \/ frame_log[f].started
           \/ f = Len(frame_log) /\ pc = "llm_run"

\* ------------------------------------------------------------------------
\* C26
\* ------------------------------------------------------------------------

\* the sum of the counts of the entries of c at the indices of S
RECURSIVE SumCounts(_, _)
SumCounts(c, S) ==
    IF S = {} THEN 0
    ELSE LET i == CHOOSE x \in S : TRUE
         IN  c[i].count + SumCounts(c, S \ { i })

\* old is reconciled into new: every record of new stands for a group of
\* entries of old, the entry of its key and the later entries that match
\* it first
MergedBy(old, new) ==
    LET Home(i) ==
            IF old[i].key \in CartKeys(new) THEN KeyIndex(new, old[i].key)
            ELSE LET hits == { m \in 1..Len(new) :
                                 Similar(old[i].name, old[i].brand,
                                         new[m].name, new[m].brand) }
                 IN  IF hits = {} THEN 0
                     ELSE CHOOSE m \in hits : \A n \in hits : m <= n
        Group(m) == { i \in 1..Len(old) : Home(i) = m }
        Priced(m) == { i \in Group(m) : old[i].price # None }
    IN  /\ \A i \in 1..Len(old) : Home(i) # 0
        /\ \A m \in 1..Len(new) :
              /\ new[m].key \in CartKeys(old)
              /\ LET first == KeyIndex(old, new[m].key)
                 IN  /\ \A i \in Group(m) : first <= i
                     /\ new[m].name = old[first].name
                     /\ new[m].brand = old[first].brand
              /\ new[m].count = SumCounts(old, Group(m))
              /\ \A i \in Group(m) : /\ new[m].confidence >= old[i].confidence
                                      /\ new[m].last_seen >= old[i].last_seen
              /\ \E i \in Group(m) : new[m].confidence = old[i].confidence
              /\ \E i \in Group(m) : new[m].last_seen = old[i].last_seen
              /\ new[m].price =
                    IF Priced(m) = {} THEN None
                    ELSE old[CHOOSE i \in Priced(m) : \A j \in Priced(m) : i <= j].price
        /\ \A m, n \in 1..Len(new) :
              m < n => KeyIndex(old, new[m].key) < KeyIndex(old, new[n].key)
        /\ SumCounts(new, 1..Len(new)) = SumCounts(old, 1..Len(old))
        /\ Len(new) <= Len(old)

\* C26: a step of the reconciliation pass (the only steps of these runs
\* that change the cart) leaves, for every group of merged entries, one
\* record with the key, name and brand of the first entry of the group, the
\* sum of the counts, the maxima of confidence and last_seen and the first
\* non-null price; the total of the counts is unchanged and the number of
\* entries does not grow.
C26_MergeRules == [][cart' # cart => MergedBy(cart, cart')]_vars

\* A cart of 'Coca-Cola Can' and the priced 'Coca-Cola Bottle' seen later
\* with a higher confidence has been merged into the record of the can.
C26_Witness ==
    /\ pc = "final_save"
    /\ \E i \in 1..Len(cart) :
          /\ cart[i].name = <<"Coca-Cola", "Can">>
          /\ cart[i].count = 3
          /\ cart[i].confidence = 97
          /\ cart[i].last_seen = 25
          /\ cart[i].price = <<219>>

\* ------------------------------------------------------------------------
\* C27
\* ------------------------------------------------------------------------

C28_NoSimilarSiblings ==
    /\ \A i, j \in 1..Len(cart) :
          i # j => ~ Similar(cart[i].name, cart[i].brand, cart[j].name, cart[j].brand)
    /\ deduplicate_cart_entries(cart) = cart

\* A frame inserted an item, and a later frame brought an item of another
\* key that matches the entry: update_cart has skipped it.
C28_Witness ==
    \E g, f \in Frames :
        /\ g < f
        /\ frame_log[g].modified
        /\ frame_log[f].finished /\ ~ frame_log[f].modified
        /\ frame_log[f].result.kind = "dict"
        /\ PassesPreconditions(frame_log[f].result.objs[1])
        /\ EntryOf(frame_log[f].result.objs[1]) \notin CartKeys(cart)
        /\ SimilarEntries(cart, frame_log[f].result.objs[1]) # {}

\* ------------------------------------------------------------------------
\* C29
\* ------------------------------------------------------------------------

\* C29: while a thread of save_results_to_json serializes, the cart and the
\* audit log are those of the state in which the thread started (w.doc): no
\* step of the frame loop or of an enrichment task has changed them since.
C29_ConsistentSnapshot ==
    \A w \in writers :
        /\ w.doc.cart = cart
        /\ w.doc.n = Len(all_classifications)

\* ------------------------------------------------------------------------
\* C30
\* ------------------------------------------------------------------------

\* C30: is_duplicate_item returns true for the name and the normalized
\* brand of every entry the cart holds.
C30_ReflexiveDuplicateCheck ==
    \A i \in 1..Len(cart) : is_duplicate_item(cart, cart[i].name, cart[i].brand)

====
